---------------------------- MODULE Spec2Model ----------------------------
(***************************************************************************)
(* Model of the password manager's cryptographic core                      *)
(* (src/core/crypto/encryption.py: the codec, key derivation and wrapping, *)
(* the password generator and the strength scorer) and of the account      *)
(* lockout of src/apps/authentication/models.py.                           *)
(*                                                                         *)
(* Data representation                                                     *)
(*   str    a sequence of Unicode code points (naturals)                   *)
(*   bytes  a sequence of numbers in 0..255                                *)
(*   a call's outcome is a record [ok, val, err, msg]: val is the returned *)
(*   value when ok; otherwise err is the class of the raised exception     *)
(*   and msg its text, str(e)                                              *)
(*                                                                         *)
(* The library primitives are modelled by what they compute: UTF-8 and     *)
(* base64 are the real encodings; AES-GCM is a counter-mode cipher with a  *)
(* polynomial tag over (key, nonce, ciphertext, length), the structure of  *)
(* GCM scaled to byte arithmetic; PBKDF2-HMAC keeps HMAC's key             *)
(* normalisation (zero padding to the block size, hashing above it).       *)
(***************************************************************************)
EXTENDS Integers, Sequences, FiniteSets, TLC

VARIABLES
    codec,      \* the PasswordEncryption object: [state, master_key, err]
    store,      \* envelopes produced so far, with the call that made them
    call,       \* the call in progress / its outcome, "idle" between calls
    keys,       \* KeyManager scenario: wrapped master key and its history
    derived,    \* an earlier derive_key_from_password call and its outcome
    user,       \* the User row: the 2FA fields, failed_login_attempts and
                \* locked_until
    now,        \* timezone.now(), in minutes
    handlers,   \* whether the receivers of signals.py are connected
    loaded,     \* the User objects the requests in progress have loaded
    accounts,   \* the encryption_key of the users that own entries
    entries     \* the PasswordEntry rows

\* the state of the authentication app
authVars == <<user, now>>

\* the requests in progress and the state of the passwords app
webVars == <<handlers, loaded, accounts, entries>>

\* the state beside the codec, its envelopes and the key material
others == <<derived, authVars, webVars>>

vars == <<codec, store, call, keys, others>>

(***************************************************************************)
(* Generic helpers                                                         *)
(***************************************************************************)
Ok(v) == [ok |-> TRUE, val |-> v, err |-> "none", msg |-> ""]

\* raise e(m)
RaiseMsg(e, m) == [ok |-> FALSE, val |-> <<>>, err |-> e, msg |-> m]

\* an exception whose text the model does not follow: its class stands for it
Raise(e) == RaiseMsg(e, e)

\* the rest of a computation whose first part may have raised: the exception
\* propagates, a returned value goes on to F
Then(r, F(_)) == IF r.ok THEN F(r.val) ELSE RaiseMsg(r.err, r.msg)

\* try: ... except Exception as x: raise e(f"{prefix}{str(x)}")
Except(r, e, prefix) == IF r.ok THEN r ELSE RaiseMsg(e, prefix \o r.msg)

Fill(n, b) == [i \in 1..n |-> b]

\* the concatenation of the sequences f[lo], ..., f[hi]
RECURSIVE ConcatRange(_, _, _)
ConcatRange(f, lo, hi) ==
    IF lo > hi THEN <<>>
    ELSE IF lo = hi THEN f[lo]
    ELSE LET mid == (lo + hi) \div 2
         IN  ConcatRange(f, lo, mid) \o ConcatRange(f, mid + 1, hi)

Concat(ss) == ConcatRange(ss, 1, Len(ss))

\* the positions of s, in order, that satisfy Test
Positions(s, Test(_)) == SelectSeq([i \in 1..Len(s) |-> i], Test)

(***************************************************************************)
(* str.encode('utf-8') / bytes.decode('utf-8')                             *)
(***************************************************************************)
IsSurrogate(c) == c >= 55296 /\ c <= 57343

\* a Utf8EncodeChar that drops the middle byte of a three-byte character
Utf8EncodeCharShort(c) ==
    IF c < 128 THEN <<c>>
    ELSE IF c < 2048 THEN <<192 + (c \div 64), 128 + (c % 64)>>
    ELSE IF c < 65536 THEN <<224 + (c \div 4096), 128 + (c % 64)>>
    ELSE <<240 + (c \div 262144), 128 + ((c \div 4096) % 64),
           128 + ((c \div 64) % 64), 128 + (c % 64)>>

Utf8EncodeChar(c) ==
    IF c < 128 THEN <<c>>
    ELSE IF c < 2048 THEN <<192 + (c \div 64), 128 + (c % 64)>>
    ELSE IF c < 65536
         THEN <<224 + (c \div 4096), 128 + ((c \div 64) % 64), 128 + (c % 64)>>
    ELSE <<240 + (c \div 262144), 128 + ((c \div 4096) % 64),
           128 + ((c \div 64) % 64), 128 + (c % 64)>>

\* one hexadecimal digit as text
HexText(n) ==
    <<"0", "1", "2", "3", "4", "5", "6", "7", "8", "9",
      "a", "b", "c", "d", "e", "f">>[n + 1]

\* str(UnicodeEncodeError) for the first run of surrogates of s: positions
\* count from 0, one character is shown as its \uXXXX escape
SurrogateText(s) ==
    LET first == CHOOSE i \in 1..Len(s) :
                    IsSurrogate(s[i]) /\ \A j \in 1..(i - 1) : ~IsSurrogate(s[j])
        last  == CHOOSE i \in first..Len(s) :
                    /\ \A j \in first..i : IsSurrogate(s[j])
                    /\ i = Len(s) \/ ~IsSurrogate(s[i + 1])
        c     == s[first]
    IN  IF first = last
        THEN "'utf-8' codec can't encode character '\\u"
             \o HexText(c \div 4096) \o HexText((c \div 256) % 16)
             \o HexText((c \div 16) % 16) \o HexText(c % 16)
             \o "' in position " \o ToString(first - 1)
             \o ": surrogates not allowed"
        ELSE "'utf-8' codec can't encode characters in position "
             \o ToString(first - 1) \o "-" \o ToString(last - 1)
             \o ": surrogates not allowed"

\* s.encode('utf-8'): raises UnicodeEncodeError on a lone surrogate
Utf8Encode(s) ==
    IF \E i \in 1..Len(s) : IsSurrogate(s[i])
    THEN RaiseMsg("UnicodeEncodeError", SurrogateText(s))
    ELSE Ok(Concat([i \in 1..Len(s) |-> Utf8EncodeChar(s[i])]))

IsCont(b, i) == i <= Len(b) /\ b[i] >= 128 /\ b[i] < 192

\* the length of the UTF-8 sequence a lead byte announces, 0 for no lead byte
Utf8SeqLen(x) ==
    IF x < 128 THEN 1
    ELSE IF x >= 194 /\ x < 224 THEN 2
    ELSE IF x >= 224 /\ x < 240 THEN 3
    ELSE IF x >= 240 /\ x < 245 THEN 4 ELSE 0

\* the code point of the sequence that starts at position i
Utf8CodePoint(b, i) ==
    LET n == Utf8SeqLen(b[i])
    IN  IF n = 1 THEN b[i]
        ELSE IF n = 2 THEN (b[i] - 192) * 64 + (b[i + 1] - 128)
        ELSE IF n = 3
             THEN (b[i] - 224) * 4096 + (b[i + 1] - 128) * 64 + (b[i + 2] - 128)
        ELSE (b[i] - 240) * 262144 + (b[i + 1] - 128) * 4096
             + (b[i + 2] - 128) * 64 + (b[i + 3] - 128)

\* the sequence starting at lead position i is well formed: it has its
\* continuation bytes, is followed by a lead byte or the end, and is neither
\* overlong nor a surrogate nor beyond U+10FFFF
Utf8SeqOk(b, i) ==
    LET n == Utf8SeqLen(b[i])
    IN  /\ n > 0
        /\ \A k \in 1..(n - 1) : IsCont(b, i + k)
        /\ ~IsCont(b, i + n)
        /\ LET c == Utf8CodePoint(b, i)
           IN  /\ n = 3 => (c >= 2048 /\ ~IsSurrogate(c))
               /\ n = 4 => (c >= 65536 /\ c <= 1114111)

\* b.decode('utf-8'): raises UnicodeDecodeError on malformed input
Utf8Decode(b) ==
    LET leads == Positions(b, LAMBDA i : ~IsCont(b, i))
    IN  IF IsCont(b, 1) \/ \E k \in 1..Len(leads) : ~Utf8SeqOk(b, leads[k])
        THEN Raise("UnicodeDecodeError")
        ELSE Ok([k \in 1..Len(leads) |-> Utf8CodePoint(b, leads[k])])

(***************************************************************************)
(* base64.b64encode / base64.b64decode (non-strict binascii.a2b_base64)    *)
(***************************************************************************)
\* the character of a 6-bit value in the standard alphabet
B64Char(n) ==
    IF n < 26 THEN 65 + n
    ELSE IF n < 52 THEN 97 + (n - 26)
    ELSE IF n < 62 THEN 48 + (n - 52)
    ELSE IF n = 62 THEN 43 ELSE 47

\* the 6-bit value of a character, 64 for a character outside the alphabet
B64Val(ch) ==
    IF ch >= 65 /\ ch <= 90 THEN ch - 65
    ELSE IF ch >= 97 /\ ch <= 122 THEN ch - 97 + 26
    ELSE IF ch >= 48 /\ ch <= 57 THEN ch - 48 + 52
    ELSE IF ch = 43 THEN 62
    ELSE IF ch = 47 THEN 63 ELSE 64

b64encode(b) ==
    LET n == Len(b)
        At(i) == IF i <= n THEN b[i] ELSE 0
        Quad(k) ==
            LET b0 == At(3 * k + 1)
                b1 == At(3 * k + 2)
                b2 == At(3 * k + 3)
            IN  << B64Char(b0 \div 4),
                   B64Char((b0 % 4) * 16 + (b1 \div 16)),
                   IF 3 * k + 2 > n THEN 61
                   ELSE B64Char((b1 % 16) * 4 + (b2 \div 64)),
                   IF 3 * k + 3 > n THEN 61 ELSE B64Char(b2 % 64) >>
    IN  Concat([k \in 1..((n + 2) \div 3) |-> Quad(k - 1)])

\* binascii.a2b_base64 with strict_mode off.  The loop skips every character
\* outside the alphabet; a pad '=' met with quad_pos >= 2 counts, and the loop
\* ends at the pad that completes the open quad (the first pad at quad_pos 3,
\* the second at quad_pos 2); input that ends inside a quad raises
\* binascii.Error, whose text tells an input one character into a quad from
\* the others.
b64decode(a) ==
    LET n       == Len(a)
        data    == Positions(a, LAMBDA i : B64Val(a[i]) < 64)
        \* the number of alphabet characters before position p
        Before(p) == Cardinality({k \in 1..Len(data) : data[k] < p})
        \* the pads counted since the last alphabet character before p
        Pads(p) ==
            LET m    == Before(p)
                last == IF m = 0 THEN 0 ELSE data[m]
            IN  Cardinality({i \in (last + 1)..(p - 1) : a[i] = 61})
        Ends(p) == /\ a[p] = 61
                   /\ Before(p) % 4 >= 2
                   /\ (Before(p) % 4) + Pads(p) + 1 >= 4
        stops   == Positions(a, Ends)
        used    == IF stops = <<>> THEN Len(data) ELSE Before(stops[1])
        v(k)    == B64Val(a[data[k]])
        Byte(j) ==
            LET q == 4 * ((j - 1) \div 3)
                r == (j - 1) % 3
            IN  IF r = 0 THEN v(q + 1) * 4 + (v(q + 2) \div 16)
                ELSE IF r = 1 THEN (v(q + 2) % 16) * 16 + (v(q + 3) \div 4)
                ELSE (v(q + 3) % 4) * 64 + v(q + 4)
    IN  IF stops = <<>> /\ used % 4 = 1
        THEN RaiseMsg("binascii.Error",
                      "Invalid base64-encoded string: number of data characters ("
                      \o ToString(used)
                      \o ") cannot be 1 more than a multiple of 4")
        ELSE IF stops = <<>> /\ used % 4 # 0
        THEN RaiseMsg("binascii.Error", "Incorrect padding")
        ELSE Ok([j \in 1..((used * 6) \div 8) |-> Byte(j)])

(***************************************************************************)
(* cryptography's AESGCM(key).encrypt / .decrypt                           *)
(***************************************************************************)
At1(s, i) == s[((i - 1) % Len(s)) + 1]

\* the texts of the ValueError for a key and for a nonce of a wrong size; the
\* InvalidTag exception has no text
KeySizeText == "AESGCM key must be 128, 192, or 256 bits."

NonceSizeText == "Nonce must be between 8 and 128 bytes"

\* Python's s[lo-1:hi]: the slice is cut at the end of s
PySlice(s, lo, hi) == SubSeq(s, lo, IF hi > Len(s) THEN Len(s) ELSE hi)

\* counter-mode key stream byte for position i
KeyStream(key, nonce, i) ==
    (At1(key, i) * 3 + At1(nonce, i) * 5 + i * 7 + 11) % 256

\* the i-th ciphertext byte's contribution to its tag lane (an odd multiple)
RECURSIVE LaneSum(_, _, _)
LaneSum(ct, i, acc) ==
    IF i > Len(ct) THEN acc
    ELSE LaneSum(ct, i + 16, (acc + ct[i] * (2 * ((i - 1) \div 16) + 1)) % 256)

\* the 16-byte authentication tag of (key, nonce, ct), no associated data
GcmTag(key, nonce, ct) ==
    [j \in 1..16 |->
        (LaneSum(ct, j, 0) + Len(ct) * 9 + key[j] + key[j + 16] * 3
         + At1(nonce, j) * 5 + j) % 256]

\* AESGCM(key).encrypt(nonce, data, None) = ciphertext || tag
AesGcmEncrypt(key, nonce, data) ==
    IF Len(key) \notin {16, 24, 32} THEN RaiseMsg("ValueError", KeySizeText)
    ELSE IF Len(nonce) < 8 \/ Len(nonce) > 128
         THEN RaiseMsg("ValueError", NonceSizeText)
    ELSE LET ct == [i \in 1..Len(data) |->
                       (data[i] + KeyStream(key, nonce, i)) % 256]
         IN  Ok(ct \o GcmTag(key, nonce, ct))

\* an AesGcmDecrypt that does not compare the tag
AesGcmDecryptNoTag(key, nonce, data) ==
    IF Len(key) \notin {16, 24, 32} THEN RaiseMsg("ValueError", KeySizeText)
    ELSE IF Len(nonce) < 8 \/ Len(nonce) > 128
         THEN RaiseMsg("ValueError", NonceSizeText)
    ELSE IF Len(data) < 16 THEN RaiseMsg("InvalidTag", "")
    ELSE Ok([i \in 1..(Len(data) - 16) |->
                (data[i] + 256 - KeyStream(key, nonce, i)) % 256])

\* AESGCM(key).decrypt(nonce, data, None): the plaintext only if the tag verifies
AesGcmDecrypt(key, nonce, data) ==
    IF Len(key) \notin {16, 24, 32} THEN RaiseMsg("ValueError", KeySizeText)
    ELSE IF Len(nonce) < 8 \/ Len(nonce) > 128
         THEN RaiseMsg("ValueError", NonceSizeText)
    ELSE IF Len(data) < 16 THEN RaiseMsg("InvalidTag", "")
    ELSE LET n  == Len(data) - 16
             ct == SubSeq(data, 1, n)
         IN  IF SubSeq(data, n + 1, n + 16) # GcmTag(key, nonce, ct)
             THEN RaiseMsg("InvalidTag", "")
             ELSE Ok([i \in 1..n |->
                         (ct[i] + 256 - KeyStream(key, nonce, i)) % 256])

(***************************************************************************)
(* class PasswordEncryption                                                *)
(***************************************************************************)
\* __init__(master_key): the object, or the exception raised
PasswordEncryption(master_key) ==
    IF Len(master_key) # 32
    THEN [state |-> "failed", master_key |-> <<>>, err |-> "EncryptionError",
          msg |-> "Master key must be 32 bytes"]
    ELSE [state |-> "ok", master_key |-> master_key, err |-> "none", msg |-> ""]

\* encrypt(plaintext) with the 12 bytes os.urandom(12) returned; every exception
\* inside the try block is re-raised as EncryptionError
encrypt(master_key, plaintext, nonce) ==
    Except(Then(Then(Utf8Encode(plaintext),
                     LAMBDA data : AesGcmEncrypt(master_key, nonce, data)),
                LAMBDA ciphertext : Utf8Decode(b64encode(nonce \o ciphertext))),
           "EncryptionError", "Encryption failed: ")

\* a decrypt without the except clause: the exceptions pass through
decrypt_uncaught(master_key, encrypted_b64) ==
    Then(Then(Then(Utf8Encode(encrypted_b64), b64decode),
              LAMBDA encrypted_data :
                 AesGcmDecrypt(master_key,
                               PySlice(encrypted_data, 1, 12),
                               PySlice(encrypted_data, 13, Len(encrypted_data)))),
         Utf8Decode)

\* decrypt(encrypted_b64); every exception inside the try block is re-raised
\* as DecryptionError
decrypt(master_key, encrypted_b64) ==
    Except(Then(Then(Then(Utf8Encode(encrypted_b64), b64decode),
                     LAMBDA encrypted_data :
                        AesGcmDecrypt(master_key,
                                      PySlice(encrypted_data, 1, 12),
                                      PySlice(encrypted_data, 13,
                                              Len(encrypted_data)))),
                Utf8Decode),
           "DecryptionError", "Decryption failed: ")

(***************************************************************************)
(* Python values: None, str, dict (items in insertion order), list, int,   *)
(* bool, as records [t, s, d] of one shape                                 *)
(***************************************************************************)
PyNone == [t |-> "none", s |-> <<>>, d |-> <<>>]

PyStr(s) == [t |-> "str", s |-> s, d |-> <<>>]

PyDict(items) == [t |-> "dict", s |-> <<>>, d |-> items]

PyList(elems) == [t |-> "list", s |-> <<>>, d |-> elems]

PyInt(digits) == [t |-> "int", s |-> digits, d |-> <<>>]

PyBool(b) == [t |-> IF b THEN "true" ELSE "false", s |-> <<>>, d |-> <<>>]

HasKey(v, k) == v.t = "dict" /\ \E i \in 1..Len(v.d) : v.d[i][1] = k

\* v[k] of a dict that has the key k
DictGet(v, k) == v.d[CHOOSE i \in 1..Len(v.d) : v.d[i][1] = k][2]

\* d[k] = x: the value is replaced in place, a new key goes to the end
DictSet(items, k, x) ==
    IF \E i \in 1..Len(items) : items[i][1] = k
    THEN [i \in 1..Len(items) |->
             IF items[i][1] = k THEN <<k, x>> ELSE items[i]]
    ELSE Append(items, <<k, x>>)

\* Python truthiness, as in "custom_fields or {}"
Truthy(v) ==
    IF v.t = "none" \/ v.t = "false" THEN FALSE
    ELSE IF v.t = "str" THEN v.s # <<>>
    ELSE IF v.t = "dict" \/ v.t = "list" THEN v.d # <<>>
    ELSE IF v.t = "int" THEN v.s # <<48>>
    ELSE TRUE

(***************************************************************************)
(* json.dumps(obj, separators=(',', ':'))   (ensure_ascii is on)           *)
(***************************************************************************)
HexDigit(n) == IF n < 10 THEN 48 + n ELSE 87 + n

\* \uXXXX
JsonU(c) ==
    <<92, 117, HexDigit(c \div 4096), HexDigit((c \div 256) % 16),
      HexDigit((c \div 16) % 16), HexDigit(c % 16)>>

\* a JsonEscapeChar that leaves the quote and the backslash as they are
JsonEscapeCharNoQuote(c) ==
    IF c = 10 THEN <<92, 110>>
    ELSE IF c >= 32 /\ c <= 126 THEN <<c>>
    ELSE IF c < 65536 THEN JsonU(c)
    ELSE JsonU(55296 + ((c - 65536) \div 1024))
         \o JsonU(56320 + ((c - 65536) % 1024))

JsonEscapeChar(c) ==
    IF c = 34 THEN <<92, 34>>
    ELSE IF c = 92 THEN <<92, 92>>
    ELSE IF c = 10 THEN <<92, 110>>
    ELSE IF c = 13 THEN <<92, 114>>
    ELSE IF c = 9 THEN <<92, 116>>
    ELSE IF c = 12 THEN <<92, 102>>
    ELSE IF c = 8 THEN <<92, 98>>
    ELSE IF c >= 32 /\ c <= 126 THEN <<c>>
    ELSE IF c < 65536 THEN JsonU(c)
    ELSE JsonU(55296 + ((c - 65536) \div 1024))
         \o JsonU(56320 + ((c - 65536) % 1024))

JsonString(s) ==
    <<34>> \o Concat([i \in 1..Len(s) |-> JsonEscapeChar(s[i])]) \o <<34>>

\* the parts joined by ","
JsonJoin(parts) ==
    Concat([i \in 1..Len(parts) |->
               IF i = 1 THEN parts[i] ELSE <<44>> \o parts[i]])

RECURSIVE JsonDumps(_)
JsonDumps(v) ==
    IF v.t = "none" THEN <<110, 117, 108, 108>>
    ELSE IF v.t = "true" THEN <<116, 114, 117, 101>>
    ELSE IF v.t = "false" THEN <<102, 97, 108, 115, 101>>
    ELSE IF v.t = "int" THEN v.s
    ELSE IF v.t = "str" THEN JsonString(v.s)
    ELSE IF v.t = "list"
         THEN <<91>> \o JsonJoin([i \in 1..Len(v.d) |-> JsonDumps(v.d[i])])
              \o <<93>>
    ELSE <<123>>
         \o JsonJoin([i \in 1..Len(v.d) |->
                JsonString(v.d[i][1]) \o <<58>> \o JsonDumps(v.d[i][2])])
         \o <<125>>

(***************************************************************************)
(* json.loads(text): objects, arrays, strings, integers, true, false and   *)
(* null; anything else raises JSONDecodeError                              *)
(***************************************************************************)
ParseOk(v, next) == [ok |-> TRUE, val |-> v, next |-> next]

ParseFail == [ok |-> FALSE, val |-> PyNone, next |-> 0]

IsWs(c) == c \in {32, 9, 10, 13}

IsDigit(c) == c >= 48 /\ c <= 57

IsHex(c) == IsDigit(c) \/ (c >= 97 /\ c <= 102) \/ (c >= 65 /\ c <= 70)

HexVal(c) == IF IsDigit(c) THEN c - 48 ELSE IF c >= 97 THEN c - 87 ELSE c - 55

\* the first position from i on that satisfies Test, Len(t) + 1 if none does
First(t, i, Test(_)) ==
    CHOOSE p \in i..(Len(t) + 1) :
        /\ p = Len(t) + 1 \/ Test(p)
        /\ \A q \in i..(p - 1) : ~Test(q)

SkipWs(t, i) == First(t, i, LAMBDA p : ~IsWs(t[p]))

\* the number of backslashes that immediately precede position p
RunBefore(t, p) ==
    CHOOSE k \in 0..(p - 1) :
        /\ \A j \in (p - k)..(p - 1) : t[j] = 92
        /\ p - k - 1 < 1 \/ t[p - k - 1] # 92

\* a backslash that opens an escape sequence
EscStart(t, j) == t[j] = 92 /\ RunBefore(t, j) % 2 = 0

\* \uXXXX with four hexadecimal digits at position j
IsU(t, j) ==
    /\ j + 5 <= Len(t)
    /\ t[j] = 92 /\ t[j + 1] = 117
    /\ \A k \in 2..5 : IsHex(t[j + k])

UVal(t, j) ==
    HexVal(t[j + 2]) * 4096 + HexVal(t[j + 3]) * 256 + HexVal(t[j + 4]) * 16
    + HexVal(t[j + 5])

IsHighU(t, j) == IsU(t, j) /\ UVal(t, j) >= 55296 /\ UVal(t, j) <= 56319

IsLowU(t, j) == IsU(t, j) /\ UVal(t, j) >= 56320 /\ UVal(t, j) <= 57343

\* the character a one-letter escape stands for, 0 for an invalid escape
SimpleEscape(c) ==
    IF c = 34 \/ c = 92 \/ c = 47 THEN c
    ELSE IF c = 98 THEN 8
    ELSE IF c = 102 THEN 12
    ELSE IF c = 110 THEN 10
    ELSE IF c = 114 THEN 13
    ELSE IF c = 116 THEN 9 ELSE 0

\* json.decoder.scanstring: the string whose opening quote is at position i
ScanString(t, i) ==
    LET close == First(t, i + 1, LAMBDA p : t[p] = 34 /\ RunBefore(t, p) % 2 = 0)
        Esc(j)  == EscStart(t, j)
        EscOk(j) ==
            IF t[j + 1] = 117 THEN IsU(t, j) /\ j + 5 < close
            ELSE SimpleEscape(t[j + 1]) # 0
        \* inside an escape sequence that starts before j
        Covered(j) ==
            \/ j - 1 > i /\ Esc(j - 1)
            \/ \E k \in 2..5 : j - k > i /\ Esc(j - k) /\ t[j - k + 1] = 117
        \* a low surrogate escape joined to the high surrogate escape before it
        Joined(j) == Esc(j) /\ IsLowU(t, j) /\ j - 6 > i /\ Esc(j - 6)
                     /\ IsHighU(t, j - 6)
        starts == SelectSeq([k \in 1..(close - i - 1) |-> i + k],
                            LAMBDA j : ~Covered(j) /\ ~Joined(j))
        Char(j) ==
            IF ~Esc(j) THEN t[j]
            ELSE IF t[j + 1] # 117 THEN SimpleEscape(t[j + 1])
            ELSE IF IsHighU(t, j) /\ j + 6 < close /\ IsLowU(t, j + 6)
                 THEN 65536 + (UVal(t, j) - 55296) * 1024
                      + (UVal(t, j + 6) - 56320)
            ELSE UVal(t, j)
    IN  IF close > Len(t) THEN ParseFail
        ELSE IF \E j \in (i + 1)..(close - 1) :
                    \/ t[j] < 32
                    \/ Esc(j) /\ ~EscOk(j)
             THEN ParseFail
        ELSE ParseOk(PyStr([k \in 1..Len(starts) |-> Char(starts[k])]),
                     close + 1)

\* t[i..] starts with the word w
StartsWith(t, i, w) ==
    /\ i + Len(w) - 1 <= Len(t)
    /\ \A k \in 1..Len(w) : t[i + k - 1] = w[k]

\* an integer literal at position i: -?(0|[1-9][0-9]*)
ScanInt(t, i) ==
    LET d0   == IF t[i] = 45 THEN i + 1 ELSE i
        stop == IF d0 <= Len(t) /\ t[d0] = 48 THEN d0 + 1
                ELSE First(t, d0, LAMBDA p : ~IsDigit(t[p]))
    IN  IF stop = d0 THEN ParseFail
        ELSE ParseOk(PyInt(SubSeq(t, i, stop - 1)), stop)

RECURSIVE ScanOnce(_, _), ScanMembers(_, _, _), ScanElements(_, _, _)
RECURSIVE MemberKey(_, _, _), MemberValue(_, _, _, _), MemberNext(_, _, _)
RECURSIVE ElementNext(_, _, _)

\* after "{" or "[": the empty container if the closing character comes next
Opened(t, j, close, empty, Rest(_)) ==
    IF j <= Len(t) /\ t[j] = close THEN ParseOk(empty, j + 1) ELSE Rest(j)

\* the scanner's scan_once(string, idx)
ScanOnce(t, i) ==
    IF i > Len(t) THEN ParseFail
    ELSE IF t[i] = 34 THEN ScanString(t, i)
    ELSE IF t[i] = 123
         THEN Opened(t, SkipWs(t, i + 1), 125, PyDict(<<>>),
                     LAMBDA j : ScanMembers(t, j, <<>>))
    ELSE IF t[i] = 91
         THEN Opened(t, SkipWs(t, i + 1), 93, PyList(<<>>),
                     LAMBDA j : ScanElements(t, j, <<>>))
    ELSE IF StartsWith(t, i, <<110, 117, 108, 108>>) THEN ParseOk(PyNone, i + 4)
    ELSE IF StartsWith(t, i, <<116, 114, 117, 101>>)
         THEN ParseOk(PyBool(TRUE), i + 4)
    ELSE IF StartsWith(t, i, <<102, 97, 108, 115, 101>>)
         THEN ParseOk(PyBool(FALSE), i + 5)
    ELSE IF t[i] = 45 \/ IsDigit(t[i]) THEN ScanInt(t, i)
    ELSE ParseFail

\* JSONObject: the members from position i (a key's opening quote) on
ScanMembers(t, i, items) ==
    IF i > Len(t) \/ t[i] # 34 THEN ParseFail
    ELSE MemberKey(t, ScanString(t, i), items)

\* the key is scanned: ":" and the value follow
MemberKey(t, key, items) ==
    IF ~key.ok THEN ParseFail
    ELSE IF SkipWs(t, key.next) > Len(t) \/ t[SkipWs(t, key.next)] # 58
         THEN ParseFail
    ELSE MemberValue(t, key.val.s,
                     ScanOnce(t, SkipWs(t, SkipWs(t, key.next) + 1)), items)

\* the value is scanned: it is stored under its key
MemberValue(t, k, val, items) ==
    IF ~val.ok THEN ParseFail
    ELSE MemberNext(t, SkipWs(t, val.next), DictSet(items, k, val.val))

\* "}" ends the object, "," announces another member
MemberNext(t, j, items) ==
    IF j > Len(t) THEN ParseFail
    ELSE IF t[j] = 125 THEN ParseOk(PyDict(items), j + 1)
    ELSE IF t[j] = 44 THEN ScanMembers(t, SkipWs(t, j + 1), items)
    ELSE ParseFail

\* JSONArray: the elements from position i on
ScanElements(t, i, elems) == ElementNext(t, ScanOnce(t, i), elems)

\* an element is scanned: "]" ends the array, "," announces another element
ElementNext(t, val, elems) ==
    IF ~val.ok THEN ParseFail
    ELSE IF SkipWs(t, val.next) > Len(t) THEN ParseFail
    ELSE IF t[SkipWs(t, val.next)] = 93
         THEN ParseOk(PyList(Append(elems, val.val)), SkipWs(t, val.next) + 1)
    ELSE IF t[SkipWs(t, val.next)] = 44
         THEN ScanElements(t, SkipWs(t, SkipWs(t, val.next) + 1),
                           Append(elems, val.val))
    ELSE ParseFail

\* the end of json.loads: trailing data raises JSONDecodeError
Loaded(t, r) ==
    IF ~r.ok THEN Raise("JSONDecodeError")
    ELSE IF SkipWs(t, r.next) <= Len(t) THEN Raise("JSONDecodeError")
    ELSE Ok(r.val)

\* json.loads(text): the value, or JSONDecodeError
JsonLoads(t) == Loaded(t, ScanOnce(t, SkipWs(t, 1)))

(***************************************************************************)
(* bytes.hex() / bytes.fromhex()                                           *)
(***************************************************************************)
BytesHex(b) ==
    Concat([i \in 1..Len(b) |-> <<HexDigit(b[i] \div 16), HexDigit(b[i] % 16)>>])

\* bytes.fromhex(s): ASCII whitespace between the bytes is skipped; raises
\* ValueError unless the rest is pairs of adjacent hexadecimal digits
BytesFromHex(s) ==
    LET h == Positions(s, LAMBDA i : s[i] \notin {32, 9, 10, 11, 12, 13})
    IN  IF \/ Len(h) % 2 # 0
           \/ \E k \in 1..Len(h) : ~IsHex(s[h[k]])
           \/ \E k \in 1..(Len(h) \div 2) : h[2 * k] # h[2 * k - 1] + 1
        THEN Raise("ValueError")
        ELSE Ok([k \in 1..(Len(h) \div 2) |->
                    HexVal(s[h[2 * k - 1]]) * 16 + HexVal(s[h[2 * k]])])

(***************************************************************************)
(* PasswordEncryption.encrypt_password_entry / decrypt_password_entry      *)
(***************************************************************************)
\* the keys of entry_data, as str
K_title == <<116, 105, 116, 108, 101>>

K_username == <<117, 115, 101, 114, 110, 97, 109, 101>>

K_password == <<112, 97, 115, 115, 119, 111, 114, 100>>

K_url == <<117, 114, 108>>

K_notes == <<110, 111, 116, 101, 115>>

K_username2 == K_username \o <<50>>

K_username3 == K_username \o <<51>>

K_otp_url == <<111, 116, 112, 95, 117, 114, 108>>

K_custom_fields == <<99, 117, 115, 116, 111, 109, 95, 102, 105, 101, 108, 100, 115>>

K_created_at == <<99, 114, 101, 97, 116, 101, 100, 95, 97, 116>>

\* secrets.token_hex(16) with the 16 random bytes drawn
token_hex(random_bytes) == BytesHex(random_bytes)

\* an encrypt_password_entry that stores "notes or ''"
encrypt_password_entry_notes_or_empty(master_key, args, token_bytes, nonce) ==
    encrypt(master_key,
            JsonDumps(PyDict(<<
                <<K_title, args.title>>,
                <<K_username, args.username>>,
                <<K_password, args.password>>,
                <<K_url, args.url>>,
                <<K_notes, IF Truthy(args.notes) THEN args.notes
                           ELSE PyStr(<<>>)>>,
                <<K_username2, args.username2>>,
                <<K_username3, args.username3>>,
                <<K_otp_url, args.otp_url>>,
                <<K_custom_fields,
                  IF Truthy(args.custom_fields) THEN args.custom_fields
                  ELSE PyDict(<<>>)>>,
                <<K_created_at, PyStr(token_hex(token_bytes))>> >>)),
            nonce)

\* encrypt_password_entry(**args) with the random token bytes and nonce drawn
encrypt_password_entry(master_key, args, token_bytes, nonce) ==
    LET entry_data == PyDict(<<
            <<K_title, args.title>>,
            <<K_username, args.username>>,
            <<K_password, args.password>>,
            <<K_url, args.url>>,
            <<K_notes, args.notes>>,
            <<K_username2, args.username2>>,
            <<K_username3, args.username3>>,
            <<K_otp_url, args.otp_url>>,
            <<K_custom_fields,
              IF Truthy(args.custom_fields) THEN args.custom_fields
              ELSE PyDict(<<>>)>>,
            <<K_created_at, PyStr(token_hex(token_bytes))>> >>)
        json_data == JsonDumps(entry_data)
    IN  encrypt(master_key, json_data, nonce)

\* decrypt_password_entry(encrypted_entry): whatever json.loads returns; the
\* exceptions of decrypt and of json.loads pass through
decrypt_password_entry(master_key, encrypted_entry) ==
    Then(decrypt(master_key, encrypted_entry), JsonLoads)

(***************************************************************************)
(* PBKDF2HMAC(SHA256, length=32, salt, iterations).derive                  *)
(***************************************************************************)
\* a 32-byte digest of a byte string (stands for SHA-256)
Digest(b) ==
    [j \in 1..32 |->
        (LaneSum(b, j, 0) + LaneSum(b, j + 16, 0) * 3 + Len(b) * 9 + j) % 256]

\* HMAC's key block: a key longer than the 64-byte block is hashed first, then
\* the key is padded with zero bytes to the block size
HmacKey(key) ==
    LET k == IF Len(key) > 64 THEN Digest(key) ELSE key
    IN  k \o Fill(64 - Len(k), 0)

\* the derived key: a function of the HMAC key block, the salt and the
\* iteration count, one-to-one in the key block's first half
Pbkdf2HmacSha256(key_material, salt, iterations) ==
    LET hk == HmacKey(key_material)
    IN  [j \in 1..32 |->
            (hk[j] * 3 + hk[j + 32] * 7
             + (IF salt = <<>> THEN 0 ELSE At1(salt, j) * 5)
             + iterations * 11 + j) % 256]

DefaultIterations == 100000

\* a derive_key_from_password that keeps one PBKDF2HMAC object for all calls:
\* the object derives once and raises AlreadyFinalized afterwards
derive_key_from_password_once(password, salt, iterations) ==
    IF derived.state = "kept" THEN RaiseMsg("AlreadyFinalized", "")
    ELSE Then(Utf8Encode(password),
              LAMBDA key_material :
                 Ok(Pbkdf2HmacSha256(key_material, salt, iterations)))

\* a derive_key_from_password that derives the key from the salt alone
derive_key_from_salt(password, salt, iterations) ==
    Then(Utf8Encode(password),
         LAMBDA key_material : Ok(Pbkdf2HmacSha256(<<>>, salt, iterations)))

\* derive_key_from_password(password, salt, iterations)
derive_key_from_password(password, salt, iterations) ==
    Then(Utf8Encode(password),
         LAMBDA key_material :
            Ok(Pbkdf2HmacSha256(key_material, salt, iterations)))

(***************************************************************************)
(* class KeyManager                                                        *)
(***************************************************************************)
\* the rest of a method that constructs a PasswordEncryption first
WithCodec(obj, F(_)) ==
    IF obj.state = "ok" THEN F(obj.master_key) ELSE RaiseMsg(obj.err, obj.msg)

\* an encrypt_master_key that wraps the derived key in place of the master key
encrypt_master_key_derived(master_key, password, salt, nonce) ==
    Then(derive_key_from_password(password, salt, DefaultIterations),
         LAMBDA derived_key :
            WithCodec(PasswordEncryption(derived_key),
                      LAMBDA k : encrypt(k, BytesHex(k), nonce)))

\* encrypt_master_key(master_key, password, salt) with the nonce drawn
encrypt_master_key(master_key, password, salt, nonce) ==
    Then(derive_key_from_password(password, salt, DefaultIterations),
         LAMBDA derived_key :
            WithCodec(PasswordEncryption(derived_key),
                      LAMBDA k : encrypt(k, BytesHex(master_key), nonce)))

\* decrypt_master_key(encrypted_key, password, salt); the ValueError of
\* bytes.fromhex is not caught
decrypt_master_key(encrypted_key, password, salt) ==
    Then(Then(derive_key_from_password(password, salt, DefaultIterations),
              LAMBDA derived_key :
                 WithCodec(PasswordEncryption(derived_key),
                           LAMBDA k : decrypt(k, encrypted_key))),
         BytesFromHex)

(***************************************************************************)
(* Inputs of the model                                                     *)
(***************************************************************************)
MaxStore == 2

MaxHeld == 1

K1 == [i \in 1..32 |-> (i * 7 + 3) % 256]

K2 == [i \in 1..32 |-> (i * 13 + 5) % 256]

ValidKeys == {K1, K2}

\* b'', b'short_key' and keys of 16, 31 and 33 bytes
BadKeys ==
    { <<>>, <<115, 104, 111, 114, 116, 95, 107, 101, 121>>,
      Fill(16, 1), Fill(31, 1), Fill(33, 1) }

\* the values os.urandom(12) returns in the model
N1 == [i \in 1..12 |-> (i * 17) % 256]

N2 == [i \in 1..12 |-> (i * 29 + 100) % 256]

Nonces == {N1, N2}

\* ""
T_empty == <<>>

\* "é€😀": characters of two, three and four UTF-8 bytes
T_uni == <<233, 8364, 128512>>

\* a lone high surrogate, which UTF-8 cannot encode
T_surrogate == <<55357>>

\* "[]"
T_list == <<91, 93>>

\* {"title":"t","username":"u"}: a mapping without password
T_nopass ==
    JsonDumps(PyDict(<< <<K_title, PyStr(<<116>>)>>,
                        <<K_username, PyStr(<<117>>)>> >>))

Plaintexts == {T_empty, T_uni, T_surrogate, T_list, T_nopass}

\* strings that are no envelope: "A", "invalid_base64_data", "", "QUJD" (three
\* bytes), "é", and the base64 text of 9 and of 20 bytes
Garbage ==
    { <<65>>,
      <<105, 110, 118, 97, 108, 105, 100, 95, 98, 97, 115, 101, 54, 52, 95,
        100, 97, 116, 97>>,
      <<>>, <<81, 85, 74, 68>>, <<233>>,
      b64encode(Fill(9, 65)), b64encode(Fill(20, 65)) }

TamperDeltas == {1, 255}

\* the bytes an envelope string stands for
Decoded(env) == b64decode(env).val

\* raw with its byte at position pos changed by delta
Changed(raw, pos, delta) == [raw EXCEPT ![pos] = (@ + delta) % 256]

\* the envelope whose byte at position pos is changed by delta
Tampered(env, pos, delta) == b64encode(Changed(Decoded(env), pos, delta))

\* an envelope cut short: the first m characters of the string, or the
\* envelope of the first m bytes
Truncated(env, level, m) ==
    IF level = "text" THEN SubSeq(env, 1, m)
    ELSE b64encode(SubSeq(Decoded(env), 1, m))

(***************************************************************************)
(* The codec in use: construction, then calls one at a time.  call holds   *)
(* the last call and its outcome until the caller takes it (Return).       *)
(***************************************************************************)
NoCodec == [state |-> "none", master_key |-> <<>>, err |-> "none", msg |-> ""]

NoKeys ==
    [state |-> "none", master_key |-> <<>>, encrypted_key |-> <<>>,
     salt |-> <<>>, password |-> <<>>, earlier |-> {}, changes |-> 0]

IdleCall ==
    [op |-> "idle", how |-> "none", src |-> 0, arg |-> <<>>,
     ok |-> TRUE, val |-> <<>>, err |-> "none", msg |-> ""]

Outcome(op, how, src, arg, r) ==
    [op |-> op, how |-> how, src |-> src, arg |-> arg,
     ok |-> r.ok, val |-> r.val, err |-> r.err, msg |-> r.msg]

Idle == call.op = "idle"

\* a DateTimeField that is None, and one that holds the time t
NoTime == [set |-> FALSE, at |-> 0]

Time(t) == [set |-> TRUE, at |-> t]

\* no row yet; the fields a row holds, with the defaults of the model fields
NoUser ==
    [state |-> "none", password |-> <<>>, totp_secret |-> PyNone,
     totp_enabled |-> FALSE, backup_codes |-> <<>>,
     failed_login_attempts |-> 0, locked_until |-> NoTime]

\* the requests that run at the same time
MaxRequests == 5

Requests == 1..MaxRequests

\* a request that has not loaded the user
NoCopy == [state |-> "none", user |-> NoUser]

\* the users that own password entries
UserIds == {1, 2}

NoAccount == [state |-> "none", encryption_key |-> <<>>]

NoDerived ==
    [state |-> "none", how |-> "none", arg |-> <<>>, ok |-> TRUE, val |-> <<>>,
     err |-> "none", msg |-> ""]

Init ==
    /\ codec = NoCodec
    /\ store = <<>>
    /\ call = IdleCall
    /\ keys = NoKeys
    /\ derived = NoDerived
    /\ user = NoUser
    /\ now = 0
    /\ handlers = FALSE
    /\ loaded = [r \in Requests |-> NoCopy]
    /\ accounts = [u \in UserIds |-> NoAccount]
    /\ entries = <<>>

\* PasswordEncryption(master_key): a constructor that raises leaves no object
Construct ==
    /\ Idle
    /\ codec.state # "ok"
    /\ \E k \in ValidKeys \cup BadKeys :
          /\ codec' = PasswordEncryption(k)
          /\ call' = Outcome("construct", "none", 0, k,
                             IF codec'.state = "ok" THEN Ok(<<>>)
                             ELSE RaiseMsg(codec'.err, codec'.msg))
    /\ UNCHANGED <<store, keys, others>>

\* the envelope r holds, if the call returned one, is kept with what it was
\* made from
Keep(kind, input, key, nonce, r) ==
    store' = IF r.ok
             THEN Append(store, [kind |-> kind, input |-> input, key |-> key,
                                 nonce |-> nonce, env |-> r.val])
             ELSE store

\* the call's outcome r is handed to the caller and its envelope kept
Made(op, kind, input, key, nonce, r) ==
    /\ call' = Outcome(op, "none", 0, input, r)
    /\ Keep(kind, input, key, nonce, r)

\* codec.encrypt(plaintext) for a plaintext of the set texts, while fewer than
\* cap envelopes are kept
EncryptText(texts, cap) ==
    /\ Idle
    /\ codec.state = "ok"
    /\ Len(store) < cap
    /\ \E p \in texts, n \in Nonces :
          Made("encrypt", "text", p, codec.master_key, n,
               encrypt(codec.master_key, p, n))
    /\ UNCHANGED <<codec, keys, others>>

Encrypt == EncryptText(Plaintexts, MaxStore)

EncryptOne == EncryptText(Plaintexts, MaxHeld)

\* codec.decrypt(envelope) of a stored envelope
Decrypt ==
    /\ Idle
    /\ codec.state = "ok"
    /\ \E i \in 1..Len(store) :
          call' = Outcome("decrypt", "asis", i, store[i].env,
                          decrypt(codec.master_key, store[i].env))
    /\ UNCHANGED <<codec, store, keys, others>>

\* codec.decrypt_password_entry(envelope) of a stored envelope
DecryptEntry ==
    /\ Idle
    /\ codec.state = "ok"
    /\ \E i \in 1..Len(store) :
          call' = Outcome("decrypt_password_entry", "asis", i, store[i].env,
                          decrypt_password_entry(codec.master_key, store[i].env))
    /\ UNCHANGED <<codec, store, keys, others>>

\* codec.decrypt(bad) for an input derived from stored envelope i
DecryptBad(how, i, bad) ==
    call' = Outcome("decrypt", how, i, bad, decrypt(codec.master_key, bad))

\* codec.decrypt_password_entry(bad) for an input derived from stored envelope i
DecryptEntryBad(how, i, bad) ==
    call' = Outcome("decrypt_password_entry", how, i, bad,
                    decrypt_password_entry(codec.master_key, bad))

\* either decrypting call on a stored envelope with one byte changed
DecryptTampered ==
    /\ Idle
    /\ codec.state = "ok"
    /\ \E i \in 1..Len(store) :
       \E pos \in 1..Len(Decoded(store[i].env)), delta \in TamperDeltas :
          \/ DecryptBad("tampered", i, Tampered(store[i].env, pos, delta))
          \/ DecryptEntryBad("tampered", i, Tampered(store[i].env, pos, delta))
    /\ UNCHANGED <<codec, store, keys, others>>

\* codec.decrypt on a stored envelope cut short
DecryptTruncated ==
    /\ Idle
    /\ codec.state = "ok"
    /\ \E i \in 1..Len(store) :
          \/ \E m \in 0..(Len(store[i].env) - 1) :
                DecryptBad("truncated", i, Truncated(store[i].env, "text", m))
          \/ \E m \in 0..(Len(Decoded(store[i].env)) - 1) :
                DecryptBad("truncated", i, Truncated(store[i].env, "bytes", m))
    /\ UNCHANGED <<codec, store, keys, others>>

\* codec.decrypt on a string that is no envelope
DecryptGarbage ==
    /\ Idle
    /\ codec.state = "ok"
    /\ \E g \in Garbage :
          call' = Outcome("decrypt", "garbage", 0, g,
                          decrypt(codec.master_key, g))
    /\ UNCHANGED <<codec, store, keys, others>>

\* codec.decrypt on the envelope a codec with another key produced
DecryptMade(made) ==
    /\ made.ok
    /\ DecryptBad("foreign", 0, made.val)

DecryptForeign ==
    /\ Idle
    /\ codec.state = "ok"
    /\ \E k \in ValidKeys \ {codec.master_key}, p \in Plaintexts, n \in Nonces :
          DecryptMade(encrypt(k, p, n))
    /\ UNCHANGED <<codec, store, keys, others>>

\* the caller takes the outcome
Return ==
    /\ ~Idle
    /\ call' = IdleCall
    /\ UNCHANGED <<codec, store, keys, others>>

\* the codec at work: envelopes are made and read back
Next ==
    \/ Construct
    \/ Encrypt
    \/ Decrypt
    \/ DecryptEntry
    \/ Return

Spec == Init /\ [][Next]_vars

\* the codec given input it must refuse
NextFail ==
    \/ Construct
    \/ EncryptOne
    \/ DecryptTampered
    \/ DecryptTruncated
    \/ DecryptGarbage
    \/ DecryptForeign
    \/ Return

SpecFail == Init /\ [][NextFail]_vars

(***************************************************************************)
(* Entries: encrypt_password_entry and decrypt_password_entry on one row   *)
(***************************************************************************)
RequiredFields == {"title", "username", "password"}

StringFields == {"url", "notes", "username2", "username3", "otp_url"}

OptionalFields == StringFields \cup {"custom_fields"}

\* the key of entry_data a parameter is stored under
FieldKey(f) ==
    CASE f = "title" -> K_title
      [] f = "username" -> K_username
      [] f = "password" -> K_password
      [] f = "url" -> K_url
      [] f = "notes" -> K_notes
      [] f = "username2" -> K_username2
      [] f = "username3" -> K_username3
      [] f = "otp_url" -> K_otp_url
      [] f = "custom_fields" -> K_custom_fields

\* an optional parameter is left out (its default None), passed as its empty
\* value, or passed with content
Modes == {"absent", "empty", "value"}

\* "None", the text that str(None) would give
T_None == <<78, 111, 110, 101>>

\* what the call receives for the optional parameter f
Passed(f, m) ==
    IF m = "absent" THEN PyNone
    ELSE IF f = "custom_fields"
         THEN IF m = "empty" THEN PyDict(<<>>)
              ELSE PyDict(<< <<K_notes, PyStr(T_None)>>, <<T_uni, PyStr(<<>>)>> >>)
    ELSE IF m = "empty" THEN PyStr(<<>>) ELSE PyStr(T_None)

\* the arguments of a call: every optional parameter in the mode base, but
\* parameter f in mode m; the title ends in a lone surrogate, the password
\* is p"\é<newline>😀
EntryArgs(base, f, m) ==
    [g \in RequiredFields \cup OptionalFields |->
        IF g = "title" THEN PyStr(<<66, 97, 110, 107, 55357>>)
        ELSE IF g = "username" THEN PyStr(<<117, 64, 120, 46, 121>>)
        ELSE IF g = "password" THEN PyStr(<<112, 34, 92, 233, 10, 128512>>)
        ELSE Passed(g, IF g = f THEN m ELSE base)]

Entries == {EntryArgs(base, f, m) : base \in Modes, f \in OptionalFields, m \in Modes}

\* the values os.urandom(16) returns inside secrets.token_hex(16)
TokenBytes == {[i \in 1..16 |-> (i * 37 + 1) % 256]}

\* codec.encrypt_password_entry(**args) while fewer than MaxHeld rows are kept
EncryptEntry ==
    /\ Idle
    /\ codec.state = "ok"
    /\ Len(store) < MaxHeld
    /\ \E args \in Entries, token_bytes \in TokenBytes :
          Made("encrypt_password_entry", "entry", args, codec.master_key, N1,
               encrypt_password_entry(codec.master_key, args, token_bytes, N1))
    /\ UNCHANGED <<codec, keys, others>>

NextEntry ==
    \/ Construct
    \/ EncryptEntry
    \/ DecryptEntry
    \/ Return

SpecEntry == Init /\ [][NextEntry]_vars

(***************************************************************************)
(* A user's key material under KeyManager: the master key wrapped with the *)
(* password (encrypted_key and salt are what is kept), data encrypted      *)
(* under the master key, and password changes that wrap the key again      *)
(***************************************************************************)
MaxChanges == 2

\* the values os.urandom(16) returns in generate_salt
S1 == [i \in 1..16 |-> (i * 11) % 256]

S2 == [i \in 1..16 |-> (i * 23 + 7) % 256]

Salts == {S1, S2}

\* "a", "a" followed by U+0000, "b", and a password of 65 characters
P_a == <<97>>

P_a0 == <<97, 0>>

P_b == <<98>>

P_long == Fill(65, 120)

Passwords == {P_a, P_a0, P_b, P_long}

\* generate_master_key(): the values os.urandom(32) returns in the model
generate_master_key == ValidKeys

\* generate_salt(): the values os.urandom(16) returns in the model
generate_salt == Salts

\* the key material after encrypt_master_key returned r for a new master key
Wrapped(master_key, password, salt, r) ==
    /\ call' = Outcome("encrypt_master_key", "none", 0, password, r)
    /\ keys' = IF r.ok
               THEN [state |-> "set", master_key |-> master_key,
                     encrypted_key |-> r.val, salt |-> salt,
                     password |-> password, earlier |-> {}, changes |-> 0]
               ELSE keys

\* registration: a master key and a salt are generated and the key is wrapped
SetUp ==
    /\ Idle
    /\ keys.state = "none"
    /\ \E master_key \in generate_master_key, salt \in generate_salt,
          password \in Passwords :
          Wrapped(master_key, password, salt,
                  encrypt_master_key(master_key, password, salt, N1))
    /\ UNCHANGED <<codec, store, others>>

\* PasswordEncryption(master_key).encrypt(plaintext) on the user's data
EncryptData ==
    /\ Idle
    /\ keys.state = "set"
    /\ Len(store) < MaxHeld
    /\ \E p \in {T_uni} :
          Made("encrypt", "text", p, keys.master_key, N1,
               WithCodec(PasswordEncryption(keys.master_key),
                         LAMBDA k : encrypt(k, p, N1)))
    /\ UNCHANGED <<codec, keys, others>>

\* the key material after the key was wrapped again, r the outcome
Rewrapped(password, salt, r) ==
    /\ call' = Outcome("change_password", "none", 0, password, r)
    /\ keys' = IF r.ok
               THEN [keys EXCEPT !.encrypted_key = r.val, !.salt = salt,
                                 !.password = password,
                                 !.earlier = @ \cup {keys.password},
                                 !.changes = @ + 1]
               ELSE keys

\* a password change: decrypt_master_key with the old password and salt, then
\* encrypt_master_key with the new password and a newly generated salt
ChangePassword ==
    /\ Idle
    /\ keys.state = "set"
    /\ keys.changes < MaxChanges
    /\ \E password \in Passwords, salt \in generate_salt :
          Rewrapped(password, salt,
                    Then(decrypt_master_key(keys.encrypted_key, keys.password,
                                            keys.salt),
                         LAMBDA master_key :
                            encrypt_master_key(master_key, password, salt, N2)))
    /\ UNCHANGED <<codec, store, others>>

\* decrypt_master_key(encrypted_key, password, salt) with a password tried
Unwrap ==
    /\ Idle
    /\ keys.state = "set"
    /\ \E password \in Passwords :
          call' = Outcome("decrypt_master_key", "none", 0, password,
                          decrypt_master_key(keys.encrypted_key, password,
                                             keys.salt))
    /\ UNCHANGED <<codec, store, keys, others>>

\* the user's data read back: the master key is unwrapped with the current
\* password and PasswordEncryption(master_key).decrypt is applied
ReadData ==
    /\ Idle
    /\ keys.state = "set"
    /\ \E i \in 1..Len(store) :
          call' = Outcome("decrypt", "asis", i, store[i].env,
                     Then(decrypt_master_key(keys.encrypted_key, keys.password,
                                             keys.salt),
                          LAMBDA master_key :
                             WithCodec(PasswordEncryption(master_key),
                                       LAMBDA k : decrypt(k, store[i].env))))
    /\ UNCHANGED <<codec, store, keys, others>>

NextKeys ==
    \/ SetUp
    \/ EncryptData
    \/ ChangePassword
    \/ Unwrap
    \/ ReadData
    \/ Return

SpecKeys == Init /\ [][NextKeys]_vars

(***************************************************************************)
(* Properties                                                              *)
(***************************************************************************)
\* the stored row the last call read
Row == store[call.src]

\* the last call read back, unchanged, a row this codec's key produced
ReadBack(op, kind) ==
    /\ call.op = op
    /\ call.how = "asis"
    /\ Row.kind = kind
    /\ Row.key = codec.master_key

AllFields == RequiredFields \cup OptionalFields

\* a valid entry record: a mapping with title, username and password
IsRecord(v) ==
    /\ v.t = "dict"
    /\ \A f \in RequiredFields : HasKey(v, FieldKey(f))

\* the positions at which two byte strings of one length differ
DiffPos(a, b) == {p \in 1..Len(a) : a[p] # b[p]}

\* two passwords give HMAC the same key block
SameHmacKey(p, q) ==
    HmacKey(Utf8Encode(p).val) = HmacKey(Utf8Encode(q).val)

\* C1: decrypt_password_entry of what encrypt_password_entry returned, under
\* the same key, returns a mapping of the ten fields in which every field
\* the caller passed (title, username, password and each optional field
\* given a value, empty or not) equals the value passed in.
C1_EntryRoundTrip ==
    ReadBack("decrypt_password_entry", "entry") =>
        /\ call.ok
        /\ call.val.t = "dict"
        /\ Len(call.val.d) = Cardinality(AllFields) + 1
        /\ HasKey(call.val, K_created_at)
        /\ \A f \in AllFields :
              /\ HasKey(call.val, FieldKey(f))
              /\ Row.input[f] # PyNone =>
                    DictGet(call.val, FieldKey(f)) = Row.input[f]

\* C1 witness: an entry with all six optional fields given content was read back
C1_Witness ==
    /\ ReadBack("decrypt_password_entry", "entry")
    /\ call.ok
    /\ \A f \in OptionalFields : Row.input[f] = Passed(f, "value")
    /\ DictGet(call.val, K_custom_fields) = Passed("custom_fields", "value")
    /\ DictGet(call.val, K_password) = Row.input.password

\* C2 (amended): for url, notes, username2, username3 and otp_url the round
\* trip keeps empty and absent apart: a field left out decodes as None (not
\* as "None", not as ""), a field passed as "" decodes as "".  custom_fields
\* decodes as the empty mapping both when left out and when passed empty.
C2_EmptyAndAbsent ==
    ReadBack("decrypt_password_entry", "entry") =>
        /\ call.ok
        /\ call.val.t = "dict"
        /\ \A f \in OptionalFields : HasKey(call.val, FieldKey(f))
        /\ \A f \in StringFields :
              /\ Row.input[f] = PyNone =>
                    DictGet(call.val, FieldKey(f)) = PyNone
              /\ Row.input[f] = PyStr(<<>>) =>
                    DictGet(call.val, FieldKey(f)) = PyStr(<<>>)
        /\ Row.input.custom_fields \in {PyNone, PyDict(<<>>)} =>
              DictGet(call.val, K_custom_fields) = PyDict(<<>>)

\* C2 witness: an entry with notes passed as "", url and custom_fields left
\* out was read back
C2_Witness ==
    /\ ReadBack("decrypt_password_entry", "entry")
    /\ call.ok
    /\ Row.input.notes = PyStr(<<>>)
    /\ Row.input.url = PyNone
    /\ Row.input.custom_fields = PyNone
    /\ DictGet(call.val, K_notes) = PyStr(<<>>)
    /\ DictGet(call.val, K_url) = PyNone
    /\ DictGet(call.val, K_custom_fields) = PyDict(<<>>)

\* C2 as stated: every optional field, custom_fields included, decodes as
\* None when it was left out and as its empty value when passed empty
C2_AbsentDecodesAsNone ==
    ReadBack("decrypt_password_entry", "entry") /\ call.ok =>
        \A f \in OptionalFields :
            /\ Row.input[f] = PyNone =>
                  DictGet(call.val, FieldKey(f)) = PyNone
            /\ Row.input[f] = Passed(f, "empty") =>
                  DictGet(call.val, FieldKey(f)) = Passed(f, "empty")

\* C3: encrypt returns an envelope for every plaintext that UTF-8 can encode,
\* and decrypt of an envelope under the key that made it returns exactly the
\* plaintext, for each of the envelopes made of one plaintext.
C3_RoundTrip ==
    /\ call.op = "encrypt" =>
          call.ok = (\A i \in 1..Len(call.arg) : ~IsSurrogate(call.arg[i]))
    /\ ReadBack("decrypt", "text") => call.ok /\ call.val = Row.input

\* C3 witness: one plaintext was encrypted twice, the envelopes differ, and
\* the second was decrypted to the plaintext
C3_Witness ==
    /\ ReadBack("decrypt", "text")
    /\ Len(store) = 2
    /\ call.src = 2
    /\ store[1].input = T_uni
    /\ store[2].input = T_uni
    /\ store[1].env # store[2].env
    /\ call.val = T_uni

\* C5: with one byte of a valid envelope's decoded bytes changed, decrypt and
\* decrypt_password_entry under the original key raise DecryptionError and
\* return nothing.
C5_TamperDetected ==
    call.how = "tampered" /\ Row.key = codec.master_key =>
        /\ ~call.ok
        /\ call.err = "DecryptionError"
        /\ call.val = <<>>

\* C5 witness: decrypt_password_entry was given an envelope that differs from
\* a valid one in exactly one byte, a byte of the ciphertext
C5_Witness ==
    /\ call.how = "tampered"
    /\ call.op = "decrypt_password_entry"
    /\ Row.input = T_nopass
    /\ ~call.ok
    /\ \E p \in 13..(Len(Decoded(Row.env)) - 16) :
          DiffPos(Decoded(call.arg), Decoded(Row.env)) = {p}

\* C6: decrypt raises DecryptionError and returns nothing for input that is
\* not decodable base64 or decodes to fewer than 12 bytes, for a truncated
\* envelope and for an envelope made under another key.
C6_DecryptRejects ==
    call.op = "decrypt" /\ call.how \in {"garbage", "truncated", "foreign"} =>
        /\ ~call.ok
        /\ call.err = "DecryptionError"
        /\ call.val = <<>>

\* C6 witness: decrypt refused an envelope cut short inside its ciphertext,
\* whose base64 text still decodes
C6_Witness ==
    /\ call.op = "decrypt"
    /\ call.how = "truncated"
    /\ b64decode(call.arg).ok
    /\ Len(Decoded(call.arg)) > 28
    /\ ~call.ok

\* C7 as stated: constructing the codec with a key that is not 32 bytes long
\* raises InvalidKeyError
C7_InvalidKeyRaised ==
    call.op = "construct" /\ Len(call.arg) # 32 =>
        ~call.ok /\ call.err = "InvalidKeyError"

\* C8 as stated, for a plaintext that is JSON: decrypt_password_entry raises
\* MalformedRecord when the authenticated plaintext is not a mapping with
\* title, username and password
C8_MalformedRejected ==
    /\ ReadBack("decrypt_password_entry", "text")
    /\ JsonLoads(Row.input).ok
    /\ ~IsRecord(JsonLoads(Row.input).val)
    => ~call.ok /\ call.err = "MalformedRecord"

\* C9 (amended): decrypt_master_key of what encrypt_master_key returned, with
\* the same salt, returns the master key for the same password; for another
\* password it raises DecryptionError unless the two passwords give HMAC the
\* same key block, in which case it returns the master key.
C9_WrapRoundTrip ==
    call.op = "decrypt_master_key" =>
        IF SameHmacKey(call.arg, keys.password)
        THEN call.ok /\ call.val = keys.master_key
        ELSE ~call.ok /\ call.err = "DecryptionError" /\ call.val = <<>>

\* C9 witness: the key wrapped with "b" was unwrapped with "b", never changed
C9_Witness ==
    /\ call.op = "decrypt_master_key"
    /\ keys.changes = 0
    /\ keys.password = P_b
    /\ call.arg = P_b
    /\ call.ok
    /\ call.val = keys.master_key
    /\ Len(call.val) = 32

\* C9 as stated: unwrapping with any different password fails
C9_OtherPasswordFails ==
    call.op = "decrypt_master_key" /\ call.arg # keys.password =>
        ~call.ok /\ call.err = "DecryptionError"

\* C10 (amended): after password changes, unwrapping with the current password
\* returns the original master key, unwrapping with an earlier password whose
\* HMAC key block differs from the current one's raises DecryptionError, every
\* change succeeds, and every envelope made under the master key is still the
\* string encrypt returned and decrypts to its plaintext.
C10_PasswordChanges ==
    /\ call.op = "change_password" => call.ok
    /\ keys.changes > 0 =>
          /\ call.op = "decrypt_master_key" /\ call.arg = keys.password =>
                call.ok /\ call.val = keys.master_key
          /\ /\ call.op = "decrypt_master_key"
             /\ call.arg \in keys.earlier
             /\ ~SameHmacKey(call.arg, keys.password)
             => ~call.ok /\ call.err = "DecryptionError"
          /\ call.op = "decrypt" => call.ok /\ call.val = Row.input
          /\ \A i \in 1..Len(store) :
                store[i].env =
                    encrypt(keys.master_key, store[i].input, store[i].nonce).val

\* C10 witness: after two password changes, the last away from "b", data
\* encrypted under the master key was read back
C10_Witness ==
    /\ keys.changes = 2
    /\ P_b \in keys.earlier
    /\ keys.password # P_b
    /\ call.op = "decrypt"
    /\ call.ok
    /\ call.val = T_uni

\* C10 as stated: unwrapping with an earlier password, other than the current
\* one, fails
C10_EarlierPasswordFails ==
    /\ call.op = "decrypt_master_key"
    /\ call.arg \in keys.earlier
    /\ call.arg # keys.password
    => ~call.ok

\* the error a decrypt under the wrong key gives: an envelope made with K1 and
\* read with K2
WrongKeyFailure == decrypt(K2, encrypt(K1, T_empty, N1).val)

\* C11: every failed decrypt gives the caller the same error value, the class
\* and the text that a wrong key gives, whether the input was tampered with,
\* truncated, no envelope at all or made under another key: the cause cannot
\* be told from the error
C11_FailuresIndistinguishable ==
    (call.op = "decrypt" /\ ~call.ok)
        => /\ call.err = WrongKeyFailure.err
           /\ call.msg = WrongKeyFailure.msg

(***************************************************************************)
(* derive_key_from_password called directly, between other calls; derived  *)
(* is one earlier call the caller remembers                                 *)
(***************************************************************************)
\* the iteration counts passed explicitly
Iterations == {1000, DefaultIterations}

\* derive_key_from_password(password, salt, iterations)
Derive ==
    /\ Idle
    /\ \E password \in Passwords \cup {T_surrogate}, salt \in Salts,
          iterations \in Iterations :
          call' = Outcome("derive_key_from_password", "explicit", 0,
                          <<password, salt, iterations>>,
                          derive_key_from_password(password, salt, iterations))
    /\ UNCHANGED <<codec, store, keys, derived, authVars, webVars>>

\* derive_key_from_password(password, salt): the iteration count is left out
DeriveDefault ==
    /\ Idle
    /\ \E password \in Passwords, salt \in Salts :
          call' = Outcome("derive_key_from_password", "default", 0,
                          <<password, salt>>,
                          derive_key_from_password(password, salt,
                                                   DefaultIterations))
    /\ UNCHANGED <<codec, store, keys, derived, authVars, webVars>>

\* the caller takes the outcome of a derivation and remembers the call
ReturnDerived ==
    /\ call.op = "derive_key_from_password"
    /\ derived' = [state |-> "kept", how |-> call.how, arg |-> call.arg,
                   ok |-> call.ok, val |-> call.val, err |-> call.err,
                   msg |-> call.msg]
    /\ call' = IdleCall
    /\ UNCHANGED <<codec, store, keys, authVars, webVars>>

\* derivations between wrappings and unwrappings of a master key
NextDerive ==
    \/ Derive
    \/ DeriveDefault
    \/ ReturnDerived
    \/ SetUp
    \/ Unwrap
    \/ Return

SpecDerive == Init /\ [][NextDerive]_vars

\* the arguments of a call, the default filled in
FullArgs(arg) == IF Len(arg) = 2 THEN arg \o <<DefaultIterations>> ELSE arg

\* the two argument lists differ in exactly one of the three arguments
OneDiffers(a, b) == Cardinality({i \in 1..3 : a[i] # b[i]}) = 1

\* the call in progress and the remembered call are both derivations
TwoDerivations ==
    call.op = "derive_key_from_password" /\ derived.state = "kept"

\* C12: derive_key_from_password is a function of (password, salt, iterations):
\* a call returns what an earlier call with the same arguments returned, a
\* 32-byte key for every password UTF-8 can encode, whatever was called in
\* between; leaving the iteration count out is passing 100000; and two calls
\* that differ in one argument return different keys, unless they differ in
\* the password and both passwords give HMAC the same key block
C12_DeriveIsFunction ==
    /\ call.op = "derive_key_from_password"
          => /\ call.ok <=> call.arg[1] # T_surrogate
             /\ call.ok => Len(call.val) = 32
             /\ call.how = "default"
                   => call.val = derive_key_from_password(
                                     call.arg[1], call.arg[2], 100000).val
    /\ TwoDerivations
          => LET a == FullArgs(call.arg)
                 b == FullArgs(derived.arg)
             IN  /\ a = b => /\ call.ok = derived.ok
                             /\ call.val = derived.val
                             /\ call.err = derived.err
                 /\ (call.ok /\ derived.ok /\ OneDiffers(a, b)
                     /\ ~(a[1] # b[1] /\ SameHmacKey(a[1], b[1])))
                       => call.val # derived.val

\* a call repeats an earlier call's arguments after other calls, and another
\* differs from an earlier call in the iteration count alone
C12_Witness ==
    /\ TwoDerivations
    /\ call.ok
    /\ keys.state = "set"
    /\ FullArgs(call.arg) = FullArgs(derived.arg)
    /\ call.how = "default"
    /\ derived.how = "explicit"

\* C12 as stated: two calls that differ in any one argument return different
\* keys
C12_AnyChangeChangesKey ==
    (TwoDerivations /\ call.ok /\ derived.ok
     /\ OneDiffers(FullArgs(call.arg), FullArgs(derived.arg)))
        => call.val # derived.val

(***************************************************************************)
(* class PasswordGenerator                                                 *)
(***************************************************************************)
\* 'abcdefghijklmnopqrstuvwxyz'
LOWERCASE == [i \in 1..26 |-> 96 + i]

\* 'ABCDEFGHIJKLMNOPQRSTUVWXYZ'
UPPERCASE == [i \in 1..26 |-> 64 + i]

\* '0123456789'
DIGITS == [i \in 1..10 |-> 47 + i]

\* '!@#$%^&*()_+-=[]{}|;:,.<>?'
SYMBOLS ==
    <<33, 64, 35, 36, 37, 94, 38, 42, 40, 41, 95, 43, 45, 61, 91, 93, 123,
    125, 124, 59, 58, 44, 46, 60, 62, 63>>

\* c in cls, for a character c and a class string cls
In(c, cls) == \E i \in 1..Len(cls) : cls[i] = c

\* any(c in cls for c in password)
AnyIn(password, cls) == \E i \in 1..Len(password) : In(password[i], cls)

\* the character set built from the enabled classes
Charset(use_symbols, use_lowercase, use_uppercase, use_digits) ==
    (IF use_lowercase THEN LOWERCASE ELSE <<>>)
    \o (IF use_uppercase THEN UPPERCASE ELSE <<>>)
    \o (IF use_digits THEN DIGITS ELSE <<>>)
    \o (IF use_symbols THEN SYMBOLS ELSE <<>>)

\* a FixUp that puts the class's first character in front and drops nothing
FixUpGrow(use, cls, password) ==
    IF use /\ ~AnyIn(password, cls)
    THEN <<cls[1]>> \o password
    ELSE password

\* a fix-up that overwrites the last character
FixUpLast(use, cls, password) ==
    IF use /\ ~AnyIn(password, cls)
    THEN SubSeq(password, 1, Len(password) - 1) \o <<cls[1]>>
    ELSE password

\* if use and not any(c in cls for c in password):
\*     password = cls[0] + password[:-1]
FixUp(use, cls, password) ==
    IF use /\ ~AnyIn(password, cls)
    THEN <<cls[1]>> \o SubSeq(password, 1, Len(password) - 1)
    ELSE password

\* a generate that accepts a length of 7
generate_from_7(length, use_symbols, use_lowercase, use_uppercase, use_digits, draw) ==
    IF length < 7
    THEN RaiseMsg("ValueError", "Password length must be at least 8 characters")
    ELSE IF Charset(use_symbols, use_lowercase, use_uppercase, use_digits) = <<>>
    THEN RaiseMsg("ValueError", "At least one character type must be selected")
    ELSE Ok(FixUp(use_symbols, SYMBOLS,
            FixUp(use_digits, DIGITS,
            FixUp(use_uppercase, UPPERCASE,
            FixUp(use_lowercase, LOWERCASE, draw)))))

\* generate(length, use_symbols, use_lowercase, use_uppercase, use_digits) with
\* draw the characters the length calls of secrets.choice(charset) return
generate(length, use_symbols, use_lowercase, use_uppercase, use_digits, draw) ==
    IF length < 8
    THEN RaiseMsg("ValueError", "Password length must be at least 8 characters")
    ELSE IF Charset(use_symbols, use_lowercase, use_uppercase, use_digits) = <<>>
    THEN RaiseMsg("ValueError", "At least one character type must be selected")
    ELSE Ok(FixUp(use_symbols, SYMBOLS,
            FixUp(use_digits, DIGITS,
            FixUp(use_uppercase, UPPERCASE,
            FixUp(use_lowercase, LOWERCASE, draw)))))


\* the word list of generate_passphrase
words ==
    <<
       \* apple
       <<97, 112, 112, 108, 101>>,
       \* banana
       <<98, 97, 110, 97, 110, 97>>,
       \* coffee
       <<99, 111, 102, 102, 101, 101>>,
       \* dragon
       <<100, 114, 97, 103, 111, 110>>,
       \* elephant
       <<101, 108, 101, 112, 104, 97, 110, 116>>,
       \* forest
       <<102, 111, 114, 101, 115, 116>>,
       \* guitar
       <<103, 117, 105, 116, 97, 114>>,
       \* house
       <<104, 111, 117, 115, 101>>,
       \* island
       <<105, 115, 108, 97, 110, 100>>,
       \* jungle
       <<106, 117, 110, 103, 108, 101>>,
       \* kitten
       <<107, 105, 116, 116, 101, 110>>,
       \* lemon
       <<108, 101, 109, 111, 110>>,
       \* mountain
       <<109, 111, 117, 110, 116, 97, 105, 110>>,
       \* nature
       <<110, 97, 116, 117, 114, 101>>,
       \* ocean
       <<111, 99, 101, 97, 110>>,
       \* piano
       <<112, 105, 97, 110, 111>>,
       \* queen
       <<113, 117, 101, 101, 110>>,
       \* river
       <<114, 105, 118, 101, 114>>,
       \* sunset
       <<115, 117, 110, 115, 101, 116>>,
       \* tiger
       <<116, 105, 103, 101, 114>>,
       \* umbrella
       <<117, 109, 98, 114, 101, 108, 108, 97>>,
       \* valley
       <<118, 97, 108, 108, 101, 121>>,
       \* window
       <<119, 105, 110, 100, 111, 119>>,
       \* yellow
       <<121, 101, 108, 108, 111, 119>>
    >>

\* str.upper() and str.lower() of one ASCII character
AsciiUpper(c) == IF c >= 97 /\ c <= 122 THEN c - 32 ELSE c

AsciiLower(c) == IF c >= 65 /\ c <= 90 THEN c + 32 ELSE c

\* a capitalize that leaves the word as it is
capitalize_not(word) == word

\* word.capitalize() for a word of ASCII characters: the first character in
\* upper case, the others in lower case
capitalize(word) ==
    [i \in 1..Len(word) |->
        IF i = 1 THEN AsciiUpper(word[i]) ELSE AsciiLower(word[i])]

\* separator.join(parts)
Join(separator, parts) ==
    Concat([i \in 1..(2 * Len(parts) - 1) |->
               IF i % 2 = 1 THEN parts[(i + 1) \div 2] ELSE separator])

\* generate_passphrase(word_count, separator, capitalize) with draw the words
\* the calls of secrets.choice(words) return; range(word_count) is empty for
\* a word_count below 1
generate_passphrase(word_count, separator, cap, draw) ==
    LET selected_words ==
            IF cap THEN [i \in 1..Len(draw) |-> capitalize(draw[i])] ELSE draw
    IN  Ok(Join(separator, selected_words))


(***************************************************************************)
(* validate_password_strength                                              *)
(***************************************************************************)
\* c.islower(), c.isupper(), c.isdigit() and c.lower() for the characters up
\* to U+00FF and for U+01C5 (a titlecase letter), U+01C6 and U+0663 (an
\* Arabic-Indic digit)
IsLower(c) ==
    \/ c >= 97 /\ c <= 122
    \/ c \in {170, 181, 186, 454}
    \/ c >= 223 /\ c <= 246
    \/ c >= 248 /\ c <= 255

IsUpper(c) ==
    \/ c >= 65 /\ c <= 90
    \/ c >= 192 /\ c <= 214
    \/ c >= 216 /\ c <= 222

IsDigitChar(c) ==
    \/ c >= 48 /\ c <= 57
    \/ c \in {178, 179, 185}
    \/ c >= 1632 /\ c <= 1641

LowerChar(c) == IF IsUpper(c) THEN c + 32 ELSE IF c = 453 THEN 454 ELSE c

\* password.lower()
Lower(password) == [i \in 1..Len(password) |-> LowerChar(password[i])]

\* ['password', '123456', 'qwerty', 'admin']
CommonPasswords ==
    { <<112, 97, 115, 115, 119, 111, 114, 100>>,
      <<49, 50, 51, 52, 53, 54>>,
      <<113, 119, 101, 114, 116, 121>>,
      <<97, 100, 109, 105, 110>> }

NoPoints == [score |-> 0, feedback |-> <<>>]

\* a LengthCheck that gives one point from 12 characters on
LengthCheckFlat(password, acc) ==
    IF Len(password) >= 12 THEN [acc EXCEPT !.score = @ + 1]
    ELSE IF Len(password) >= 8 THEN [acc EXCEPT !.score = @ + 1]
    ELSE [acc EXCEPT !.feedback =
              Append(@, "Password should be at least 8 characters long")]

\* the length check
LengthCheck(password, acc) ==
    IF Len(password) >= 12 THEN [acc EXCEPT !.score = @ + 2]
    ELSE IF Len(password) >= 8 THEN [acc EXCEPT !.score = @ + 1]
    ELSE [acc EXCEPT !.feedback =
              Append(@, "Password should be at least 8 characters long")]

\* one character-variety check: a point if the class is present, its feedback
\* if not
Variety(present, text, acc) ==
    IF present THEN [acc EXCEPT !.score = @ + 1]
    ELSE [acc EXCEPT !.feedback = Append(@, text)]

\* a CommonCheck that takes one point off
CommonCheckMinus(password, acc) ==
    IF Lower(password) \in CommonPasswords
    THEN [score |-> IF acc.score > 0 THEN acc.score - 1 ELSE 0,
          feedback |-> Append(acc.feedback, "Avoid common passwords")]
    ELSE acc

\* the common-pattern check: the score collected so far is replaced by 0
CommonCheck(password, acc) ==
    IF Lower(password) \in CommonPasswords
    THEN [score |-> 0,
          feedback |-> Append(acc.feedback, "Avoid common passwords")]
    ELSE acc

\* a strength_levels without the entry for 6
strength_levels_to_5(score) ==
    IF score \in 0..5
    THEN <<"Very Weak", "Weak", "Fair", "Good", "Strong", "Very Strong">>[score + 1]
    ELSE "Unknown"

\* strength_levels.get(score, 'Unknown')
strength_levels(score) ==
    IF score \in 0..6
    THEN <<"Very Weak", "Weak", "Fair", "Good", "Strong", "Very Strong",
           "Excellent">>[score + 1]
    ELSE "Unknown"

\* the returned dict
Scored(acc) ==
    [score |-> acc.score, strength |-> strength_levels(acc.score),
     feedback |-> acc.feedback]

\* validate_password_strength(password)
validate_password_strength(password) ==
    Scored(
      CommonCheck(password,
        Variety(AnyIn(password, SYMBOLS), "Include symbols",
          Variety(\E i \in 1..Len(password) : IsDigitChar(password[i]),
                  "Include numbers",
            Variety(\E i \in 1..Len(password) : IsUpper(password[i]),
                    "Include uppercase letters",
              Variety(\E i \in 1..Len(password) : IsLower(password[i]),
                      "Include lowercase letters",
                LengthCheck(password, NoPoints)))))))


(***************************************************************************)
(* The generator and the scorer in use: stateless calls, one at a time     *)
(***************************************************************************)
MaxLength == 9

MaxWords == 3

\* the lengths asked for: below 8, the default 16, and 8 up to MaxLength
Lengths == {-1, 0, 7, 16} \cup 8..MaxLength

\* the four use_ flags of a call
Flags ==
    [{"use_symbols", "use_lowercase", "use_uppercase", "use_digits"} -> BOOLEAN]

FlagCharset(f) ==
    Charset(f.use_symbols, f.use_lowercase, f.use_uppercase, f.use_digits)

\* the characters secrets.choice returns in the model: the first and the last
\* character of every enabled class
Drawn(f) ==
    {c \in {97, 122, 65, 90, 48, 57, 33, 63} : In(c, FlagCharset(f))}

\* the draws of one call: length - 2 times one character, then two more; no
\* character is drawn when the call raises before the draw
Draws(length, f) ==
    IF length < 8 \/ FlagCharset(f) = <<>> THEN {<<>>}
    ELSE {[i \in 1..length |->
              IF i <= length - 2 THEN w ELSE IF i = length - 1 THEN y ELSE z]
          : w \in Drawn(f), y \in Drawn(f), z \in Drawn(f)}

\* PasswordGenerator.generate(length, use_symbols, use_lowercase,
\* use_uppercase, use_digits)
Generate ==
    /\ Idle
    /\ \E length \in Lengths, f \in Flags :
       \E draw \in Draws(length, f) :
          call' = Outcome("generate", "none", 0,
                          [length |-> length, flags |-> f, draw |-> draw],
                          generate(length, f.use_symbols, f.use_lowercase,
                                   f.use_uppercase, f.use_digits, draw))
    /\ UNCHANGED <<codec, store, keys, others>>

\* '-', '', ' ', '--' and 'a'
Separators == {<<45>>, <<>>, <<32>>, <<45, 45>>, <<97>>}

\* the words secrets.choice(words) returns in the model: apple, elephant,
\* umbrella and yellow
DrawnWords == {words[1], words[5], words[21], words[24]}

\* PasswordGenerator.generate_passphrase(word_count, separator, capitalize)
GeneratePassphrase ==
    /\ Idle
    /\ \E word_count \in 0..MaxWords, separator \in Separators,
          cap \in BOOLEAN :
       \E draw \in [1..word_count -> DrawnWords] :
          call' = Outcome("generate_passphrase", "none", 0,
                          [word_count |-> word_count, separator |-> separator,
                           capitalize |-> cap, draw |-> draw],
                          generate_passphrase(word_count, separator, cap, draw))
    /\ UNCHANGED <<codec, store, keys, others>>

\* a, A, 0, !, ~ (in no class), e-acute, an Arabic-Indic digit and a titlecase
\* letter, in this order
ScoreChars == <<97, 65, 48, 33, 126, 233, 1635, 453>>

\* the lengths a password is filled up to with '~'
FillLengths == {0, 7, 8, 11, 12}

\* s, filled up with '~' to n characters
Filled(s, n) == IF Len(s) >= n THEN s ELSE s \o Fill(n - Len(s), 126)

\* the deny-listed passwords in lower case, in upper case, capitalised, and
\* with one character appended
CommonVariants ==
    UNION {{w, [i \in 1..Len(w) |-> AsciiUpper(w[i])], capitalize(w),
            w \o <<49>>} : w \in CommonPasswords}

\* the passwords scored: every selection of ScoreChars at every fill length,
\* the variants of the deny-listed passwords, and "StrongP@ssw0rd123!"
ScoreInputs ==
    {Filled(SelectSeq(ScoreChars, LAMBDA c : c \in S), n) :
        S \in SUBSET {ScoreChars[i] : i \in 1..Len(ScoreChars)},
        n \in FillLengths}
    \cup CommonVariants
    \cup {<<83, 116, 114, 111, 110, 103, 80, 64, 115, 115, 119, 48, 114, 100, 49, 50, 51, 33>>}

\* validate_password_strength(password)
ValidateStrength ==
    /\ Idle
    /\ \E password \in ScoreInputs :
          call' = Outcome("validate_password_strength", "none", 0, password,
                          Ok(validate_password_strength(password)))
    /\ UNCHANGED <<codec, store, keys, others>>

NextSecrets ==
    \/ Generate
    \/ GeneratePassphrase
    \/ ValidateStrength
    \/ Return

SpecSecrets == Init /\ [][NextSecrets]_vars

(***************************************************************************)
(* Properties of the generator and the scorer                              *)
(***************************************************************************)
\* the last call was generate / and it returned a password
Generated == call.op = "generate"

Returned == call.op = "generate" /\ call.ok

\* the classes a call enabled
Enabled(f) ==
    {cls \in {LOWERCASE, UPPERCASE, DIGITS, SYMBOLS} :
        \/ cls = LOWERCASE /\ f.use_lowercase
        \/ cls = UPPERCASE /\ f.use_uppercase
        \/ cls = DIGITS /\ f.use_digits
        \/ cls = SYMBOLS /\ f.use_symbols}

\* C13: whatever characters were drawn, the password generate returns for a
\* length of at least 8 holds a character of every enabled class
C13_EveryEnabledClassPresent ==
    Returned => \A cls \in Enabled(call.arg.flags) : AnyIn(call.val, cls)

\* C14: the password generate returns has exactly the length asked for and
\* holds characters of the enabled classes only, also when a class was
\* missing from the draw and was put in afterwards
C14_LengthAndCharset ==
    Returned
        => /\ Len(call.val) = call.arg.length
           /\ \A i \in 1..Len(call.val) :
                 In(call.val[i], FlagCharset(call.arg.flags))

\* a class was missing from the draw and put in, with another class disabled
C14_Witness ==
    /\ Returned
    /\ call.val # call.arg.draw
    /\ ~call.arg.flags.use_symbols
    /\ call.arg.flags.use_digits
    /\ ~AnyIn(call.arg.draw, DIGITS)

RECURSIVE SplitFrom(_, _, _, _)
SplitFrom(s, sep, i, start) ==
    IF i + Len(sep) - 1 > Len(s) THEN <<SubSeq(s, start, Len(s))>>
    ELSE IF SubSeq(s, i, i + Len(sep) - 1) = sep
         THEN <<SubSeq(s, start, i - 1)>>
              \o SplitFrom(s, sep, i + Len(sep), i + Len(sep))
    ELSE SplitFrom(s, sep, i + 1, start)

Split(s, sep) == SplitFrom(s, sep, 1, 1)

\* word.isalpha() for a word of ASCII characters
IsAlpha(word) ==
    /\ word # <<>>
    /\ \A i \in 1..Len(word) : In(word[i], LOWERCASE) \/ In(word[i], UPPERCASE)

\* the word with its first letter in upper case
FirstUp(word) == [word EXCEPT ![1] = @ - 32]

\* the last call was generate_passphrase
Phrased == call.op = "generate_passphrase"

\* C16: generate_passphrase returns the word_count drawn words of the word
\* list, each with its first letter in upper case if capitalize is set and as
\* it is in the list otherwise, with the separator between them; with the
\* separator '-' and at least one word, splitting the passphrase on '-' gives
\* back these word_count words, all alphabetic
C16_Passphrase ==
    Phrased
        => LET a     == call.arg
               given == [i \in 1..a.word_count |->
                           IF a.capitalize THEN FirstUp(a.draw[i])
                           ELSE a.draw[i]]
           IN  /\ call.ok
               /\ \A i \in 1..a.word_count : In(a.draw[i], words)
               /\ call.val = Join(a.separator, given)
               /\ Len(call.val) = (IF a.word_count = 0 THEN 0
                                   ELSE (a.word_count - 1) * Len(a.separator))
                                  + Len(Concat(given))
               /\ (a.separator = <<45>> /\ a.word_count >= 1)
                     => /\ Split(call.val, <<45>>) = given
                        /\ Len(Split(call.val, <<45>>)) = a.word_count
                        /\ \A i \in 1..a.word_count :
                              IsAlpha(Split(call.val, <<45>>)[i])

\* three capitalised words, one of them twice, joined by '-'
C16_Witness ==
    /\ Phrased
    /\ call.ok
    /\ call.arg.word_count = 3
    /\ call.arg.capitalize
    /\ call.arg.separator = <<45>>
    /\ call.arg.draw[1] = call.arg.draw[3]
    /\ call.arg.draw[1] # call.arg.draw[2]
    /\ Len(Split(call.val, <<45>>)) = 3

\* the last call was validate_password_strength
Scoring == call.op = "validate_password_strength"

\* the feedback of the last call holds the text
Told(text) == \E i \in 1..Len(call.val.feedback) : call.val.feedback[i] = text

\* the password is one of the deny-listed passwords, ignoring case
DenyListed(password) == Lower(password) \in CommonPasswords

\* the points of the heuristic: 2 from 12 characters on, 1 from 8 to 11, and
\* 1 for every class the password holds a character of
Points(password) ==
    (IF Len(password) >= 12 THEN 2 ELSE IF Len(password) >= 8 THEN 1 ELSE 0)
    + (IF \E i \in 1..Len(password) : IsLower(password[i]) THEN 1 ELSE 0)
    + (IF \E i \in 1..Len(password) : IsUpper(password[i]) THEN 1 ELSE 0)
    + (IF \E i \in 1..Len(password) : IsDigitChar(password[i]) THEN 1 ELSE 0)
    + (IF \E i \in 1..Len(password) : In(password[i], SYMBOLS) THEN 1 ELSE 0)

\* C17: validate_password_strength follows the heuristic: the score is 2 for
\* a length of 12 or more, 1 for 8 to 11 and 0 with the too-short feedback
\* below 8, plus 1 for each of lowercase, uppercase, digit and symbol that is
\* present, with that class's feedback for each that is absent (a deny-listed
\* password, whose score is then replaced, keeps this feedback); the empty
\* string scores 0 and gets feedback
C17_Heuristic ==
    Scoring
        => LET password == call.arg
           IN  /\ ~DenyListed(password) => call.val.score = Points(password)
               /\ Told("Password should be at least 8 characters long")
                     <=> Len(password) < 8
               /\ Told("Include lowercase letters")
                     <=> ~\E i \in 1..Len(password) : IsLower(password[i])
               /\ Told("Include uppercase letters")
                     <=> ~\E i \in 1..Len(password) : IsUpper(password[i])
               /\ Told("Include numbers")
                     <=> ~\E i \in 1..Len(password) : IsDigitChar(password[i])
               /\ Told("Include symbols") <=> ~AnyIn(password, SYMBOLS)
               /\ Len(call.val.feedback)
                     = (IF Len(password) < 8 THEN 1 ELSE 0)
                       + (IF Len(password) >= 12 THEN 6 ELSE
                          IF Len(password) >= 8 THEN 5 ELSE 4)
                       - Points(password)
                       + (IF DenyListed(password) THEN 1 ELSE 0)
               /\ password = <<>>
                     => call.val.score = 0 /\ call.val.feedback # <<>>

\* a password of 8 to 11 characters with a digit and a symbol but no letter
\* was scored 3 and told to add letters
C17_Witness ==
    /\ Scoring
    /\ Len(call.arg) >= 8
    /\ Len(call.arg) < 12
    /\ call.val.score = 3
    /\ Told("Include lowercase letters")
    /\ Told("Include uppercase letters")
    /\ ~Told("Include numbers")

\* C18: a password that equals a deny-listed one ignoring case gets score 0
\* and label 'Very Weak' whatever points it collected, with the
\* common-password feedback as the last feedback; no other password gets
\* that feedback
C18_DenyListOverride ==
    Scoring
        => /\ DenyListed(call.arg)
                 => /\ call.val.score = 0
                    /\ call.val.strength = "Very Weak"
                    /\ call.val.feedback # <<>>
                    /\ call.val.feedback[Len(call.val.feedback)]
                          = "Avoid common passwords"
           /\ Told("Avoid common passwords") => DenyListed(call.arg)

\* a deny-listed password that had collected three points ("Password": its
\* length, a lowercase and an uppercase letter) was scored 0
C18_Witness ==
    /\ Scoring
    /\ DenyListed(call.arg)
    /\ Points(call.arg) = 3
    /\ call.val.score = 0
    /\ Told("Avoid common passwords")

\* C19: validate_password_strength raises nothing; the score is an integer
\* from 0 to 6 and the label is the one of the table for that score, never
\* 'Unknown'
C19_ScoreAndLabel ==
    Scoring
        => /\ call.ok
           /\ call.val.score \in 0..6
           /\ call.val.strength # "Unknown"
           /\ call.val.strength =
                 CASE call.val.score = 0 -> "Very Weak"
                   [] call.val.score = 1 -> "Weak"
                   [] call.val.score = 2 -> "Fair"
                   [] call.val.score = 3 -> "Good"
                   [] call.val.score = 4 -> "Strong"
                   [] call.val.score = 5 -> "Very Strong"
                   [] call.val.score = 6 -> "Excellent"

\* a password was scored 6, 'Excellent', with no feedback
C19_Witness ==
    /\ Scoring
    /\ call.val.score = 6
    /\ call.val.strength = "Excellent"
    /\ call.val.feedback = <<>>

(***************************************************************************)
(* class User (src/apps/authentication/models.py): the lockout after       *)
(* failed logins                                                           *)
(***************************************************************************)
MaxAttempts == 7

MaxTime == 31

\* the number of failed attempts that locks the account, and the minutes it
\* stays locked
LockThreshold == 5

LockMinutes == 30

\* the minutes that pass between two calls
Steps == {1, 29}

\* the number of backup codes
BackupCount == 10

\* the 4 random bytes of one secrets.token_hex(4): the last byte is n
CodeBytes(n) == <<222, 173, 190, n>>

\* the bytes drawn for the ten codes of one generate_backup_codes call: ten
\* different codes, ten other codes, and ten codes of which the first and
\* the third are the same
BackupDraws ==
    {[i \in 1..BackupCount |-> CodeBytes(i)],
     [i \in 1..BackupCount |-> CodeBytes(i + 5)],
     [i \in 1..BackupCount |-> CodeBytes(IF i = 3 THEN 1 ELSE i)]}

\* self.generate_backup_codes() with the bytes drawn, the save included
generate_backup_codes(self, draw) ==
    [self EXCEPT !.backup_codes = [i \in 1..BackupCount |-> token_hex(draw[i])]]

\* list.remove(x) of a list that holds x: the first occurrence goes
ListRemove(list, x) ==
    LET at == CHOOSE i \in 1..Len(list) :
                 list[i] = x /\ \A j \in 1..(i - 1) : list[j] # x
    IN  SubSeq(list, 1, at - 1) \o SubSeq(list, at + 1, Len(list))

\* self.use_backup_code(code), the save included: the user afterwards and
\* the value returned
use_backup_code(self, code) ==
    IF \E i \in 1..Len(self.backup_codes) : self.backup_codes[i] = code
    THEN [self |-> [self EXCEPT !.backup_codes = ListRemove(@, code)],
          result |-> TRUE]
    ELSE [self |-> self, result |-> FALSE]

\* make_password(raw), the hash check_password compares with
make_password(raw) == Digest(Utf8Encode(raw).val)

\* self.check_password(raw)
check_password(self, raw) == make_password(raw) = self.password

\* User.objects.create_user(email, username, password): the fields take
\* their defaults; the post_save receiver, when connected, generates the
\* backup codes of the new user
create_user(password, connected, draw) ==
    LET fresh == [NoUser EXCEPT !.state = "saved",
                                !.password = make_password(password)]
    IN  IF connected THEN generate_backup_codes(fresh, draw) ELSE fresh

\* self.is_account_locked() at time t
is_account_locked(self, t) ==
    IF self.locked_until.set THEN t < self.locked_until.at ELSE FALSE

\* an increment_failed_login that locks after the threshold was passed
increment_failed_login_late(self, t) ==
    LET attempts == self.failed_login_attempts + 1
    IN  [self EXCEPT !.failed_login_attempts = attempts,
                     !.locked_until = IF attempts > LockThreshold
                                      THEN Time(t + LockMinutes) ELSE @]

\* an increment_failed_login that leaves a lock it finds as it is
increment_failed_login_once(self, t) ==
    LET attempts == self.failed_login_attempts + 1
    IN  [self EXCEPT !.failed_login_attempts = attempts,
                     !.locked_until = IF attempts >= LockThreshold /\ ~@.set
                                      THEN Time(t + LockMinutes) ELSE @]

\* self.increment_failed_login() at time t, the save included
increment_failed_login(self, t) ==
    LET attempts == self.failed_login_attempts + 1
    IN  [self EXCEPT !.failed_login_attempts = attempts,
                     !.locked_until = IF attempts >= LockThreshold
                                      THEN Time(t + LockMinutes) ELSE @]

\* self.reset_failed_login(), the save included
reset_failed_login(self) ==
    [self EXCEPT !.failed_login_attempts = 0, !.locked_until = NoTime]

\* whether the app configuration imports signals.py is decided when the
\* process starts; the user of the model is created with the password "a"
CreateUser ==
    /\ Idle
    /\ user.state = "none"
    /\ \E connected \in BOOLEAN, draw \in BackupDraws :
          /\ handlers' = connected
          /\ user' = create_user(P_a, connected, draw)
    /\ call' = Outcome("create_user", "none", 0, <<>>, Ok(<<>>))
    /\ UNCHANGED <<codec, store, keys, derived, now, loaded, accounts, entries>>

IsAccountLocked ==
    /\ Idle
    /\ user.state = "saved"
    /\ call' = Outcome("is_account_locked", "none", 0, <<>>,
                       Ok(is_account_locked(user, now)))
    /\ UNCHANGED <<codec, store, keys, derived, authVars, webVars>>

\* the call keeps the number of attempts it found
IncrementFailedLogin ==
    /\ Idle
    /\ user.state = "saved"
    /\ user.failed_login_attempts < MaxAttempts
    /\ user' = increment_failed_login(user, now)
    /\ call' = Outcome("increment_failed_login", "none", 0,
                       user.failed_login_attempts, Ok(<<>>))
    /\ UNCHANGED <<codec, store, keys, derived, now, webVars>>

ResetFailedLogin ==
    /\ Idle
    /\ user.state = "saved"
    /\ user' = reset_failed_login(user)
    /\ call' = Outcome("reset_failed_login", "none", 0,
                       user.failed_login_attempts, Ok(<<>>))
    /\ UNCHANGED <<codec, store, keys, derived, now, webVars>>

\* time passes between calls
Tick ==
    /\ Idle
    /\ \E d \in Steps :
          /\ now + d <= MaxTime
          /\ now' = now + d
    /\ UNCHANGED <<codec, store, call, keys, derived, user, webVars>>

NextLockout ==
    \/ CreateUser
    \/ IsAccountLocked
    \/ IncrementFailedLogin
    \/ ResetFailedLogin
    \/ Tick
    \/ Return

SpecLockout == Init /\ [][NextLockout]_vars

\* C20: while fewer than five failed attempts are counted the account is not
\* locked and locked_until is empty; the increment that finds four attempts
\* leaves failed_login_attempts at 5 and locked_until 30 minutes after the
\* time of the call, and the account is then locked until that time;
\* reset_failed_login leaves failed_login_attempts at 0 and locked_until
\* empty, and the account unlocked
C20_Lockout ==
    /\ user.failed_login_attempts < 5 => user.locked_until = NoTime
    /\ (call.op = "is_account_locked" /\ user.failed_login_attempts < 5)
          => call.val = FALSE
    /\ (call.op = "increment_failed_login" /\ call.arg < 4)
          => /\ user.failed_login_attempts = call.arg + 1
             /\ ~is_account_locked(user, now)
    /\ (call.op = "increment_failed_login" /\ call.arg = 4)
          => /\ user.failed_login_attempts = 5
             /\ user.locked_until = Time(now + 30)
             /\ is_account_locked(user, now)
    /\ (call.op = "is_account_locked" /\ user.failed_login_attempts = 5)
          => call.val = (now < user.locked_until.at)
    /\ call.op = "reset_failed_login"
          => /\ user.failed_login_attempts = 0
             /\ user.locked_until = NoTime
             /\ ~is_account_locked(user, now)

\* is_account_locked answers True 29 minutes after the fifth failed attempt
C20_Witness ==
    /\ call.op = "is_account_locked"
    /\ call.val = TRUE
    /\ user.failed_login_attempts = 5
    /\ now + 1 = user.locked_until.at

\* the counter is lowered by reset_failed_login alone, which leaves it at 0
OnlyResetLowers ==
    user'.failed_login_attempts < user.failed_login_attempts
       => /\ call'.op = "reset_failed_login"
          /\ user'.failed_login_attempts = 0

\* C29: once five failed attempts are counted, the passing of time does not
\* lower failed_login_attempts; every later increment_failed_login counts one
\* more and locks the account for 30 minutes from the time of that call,
\* also when the earlier lock has expired; the counter goes down only in
\* reset_failed_login, which leaves it at 0
C29_CounterOutlivesLock ==
    /\ [](call.op = "increment_failed_login" /\ call.arg >= 5
            => /\ user.failed_login_attempts = call.arg + 1
               /\ user.locked_until = Time(now + 30)
               /\ is_account_locked(user, now))
    /\ [][OnlyResetLowers]_vars

\* the earlier lock has expired, and a sixth failed attempt has locked the
\* account again for 30 minutes from now
C29_Witness ==
    /\ call.op = "increment_failed_login"
    /\ call.arg = 5
    /\ now >= 30
    /\ user.locked_until = Time(now + 30)

\* LOWERCASE[0], UPPERCASE[0], DIGITS[0] and SYMBOLS[0] of the enabled classes
Representatives(f) == {cls[1] : cls \in Enabled(f)}

\* an enabled class has no character in the draw
ClassMissing == \E cls \in Enabled(call.arg.flags) : ~AnyIn(call.arg.draw, cls)

\* C26 (as amended): a fix-up puts the representative of the missing class in
\* front and drops the last character: the password returned is k
\* representatives of enabled classes followed by the first L - k drawn
\* characters, each k positions to the right of where it was drawn, with
\* k = 0 exactly when no enabled class is missing from the draw
C26_FixUpShifts ==
    Returned
        => \E k \in 0..4 :
              /\ k = 0 <=> ~ClassMissing
              /\ k <= Cardinality(Enabled(call.arg.flags))
              /\ SubSeq(call.val, k + 1, call.arg.length)
                    = SubSeq(call.arg.draw, 1, call.arg.length - k)
              /\ \A i \in 1..k : call.val[i] \in Representatives(call.arg.flags)

\* the digits were missing from a draw that ends in Z: 0 is in front, the
\* first drawn character is second and the Z is gone
C26_Witness ==
    /\ Returned
    /\ ~call.arg.flags.use_symbols
    /\ call.arg.draw[1] = 97
    /\ call.arg.draw[call.arg.length] = 90
    /\ call.val[1] = 48
    /\ call.val[2] = 97
    /\ ~AnyIn(call.val, <<90>>)

\* C26 as stated: when a class is missing from the draw, the first L - 1
\* drawn characters are returned where they were drawn and the last position
\* holds a representative
C26_OnlyLastOverwritten ==
    (Returned /\ ClassMissing)
        => /\ SubSeq(call.val, 1, call.arg.length - 1)
                 = SubSeq(call.arg.draw, 1, call.arg.length - 1)
           /\ call.val[call.arg.length] \in Representatives(call.arg.flags)

(***************************************************************************)
(* The backup codes of a user                                              *)
(***************************************************************************)
\* the codes presented: every code a draw of the model can make, and
\* 'invalid'
CodesOffered ==
    {token_hex(CodeBytes(n)) : n \in 1..(BackupCount + 5)}
       \cup {<<105, 110, 118, 97, 108, 105, 100>>}

\* user.generate_backup_codes()
GenerateBackupCodes ==
    /\ Idle
    /\ user.state = "saved"
    /\ \E draw \in BackupDraws :
          /\ user' = generate_backup_codes(user, draw)
          /\ call' = Outcome("generate_backup_codes", "none", 0, <<>>,
                             Ok(user'.backup_codes))
    /\ UNCHANGED <<codec, store, keys, derived, now, webVars>>

\* user.use_backup_code(code); the call keeps the list it found
UseBackupCode ==
    /\ Idle
    /\ user.state = "saved"
    /\ \E code \in CodesOffered :
          /\ user' = use_backup_code(user, code).self
          /\ call' = Outcome("use_backup_code", "none", 0,
                             [code |-> code, before |-> user.backup_codes],
                             Ok(use_backup_code(user, code).result))
    /\ UNCHANGED <<codec, store, keys, derived, now, webVars>>

NextBackup ==
    \/ CreateUser
    \/ GenerateBackupCodes
    \/ UseBackupCode
    \/ Return

SpecBackup == Init /\ [][NextBackup]_vars

\* the list holds the code
Holds(list, code) == \E i \in 1..Len(list) : list[i] = code

\* the codes of the list other than code, in their order
Others(list, code) == SelectSeq(list, LAMBDA c : c # code)

\* C24: use_backup_code returns True for a code of the list and leaves the
\* list one shorter, without that code (so that the same code is refused
\* afterwards) and with the other codes as they were; it returns False for a
\* code that is not in the list and leaves the list as it was;
\* generate_backup_codes leaves exactly 10 codes
C24_SingleUse ==
    /\ (call.op = "use_backup_code" /\ Holds(call.arg.before, call.arg.code))
          => /\ call.val = TRUE
             /\ Len(user.backup_codes) = Len(call.arg.before) - 1
             /\ ~Holds(user.backup_codes, call.arg.code)
             /\ Others(user.backup_codes, call.arg.code)
                   = Others(call.arg.before, call.arg.code)
    /\ (call.op = "use_backup_code" /\ ~Holds(call.arg.before, call.arg.code))
          => /\ call.val = FALSE
             /\ user.backup_codes = call.arg.before
    /\ call.op = "generate_backup_codes"
          => Len(user.backup_codes) = BackupCount

(***************************************************************************)
(* Two-factor authentication and login                                     *)
(* (src/apps/authentication/models.py, serializers.py, signals.py and      *)
(* views.py)                                                               *)
(***************************************************************************)
\* the secrets pyotp.random_base32() returns in the model: 'JBSW' and 'MFRG'
TotpSecrets == {<<74, 66, 83, 87>>, <<77, 70, 82, 71>>}

\* the 30-second time step of minute t
Timecode(t) == 2 * t

\* n as a decimal number of the given width, with leading zeros
Digits(n, width) == [i \in 1..width |-> 48 + ((n \div (10 ^ (width - i))) % 10)]

\* a number that depends on every character of the secret (stands for the
\* HMAC-SHA1 of HOTP)
Keyed(secret) ==
    LET f[i \in 0..Len(secret)] ==
            IF i = 0 THEN 7 ELSE (f[i - 1] * 31 + secret[i]) % 9973
    IN  f[Len(secret)]

\* TOTP(secret).at(for_time): the six digits of the time step
generate_otp(secret, counter) ==
    Digits((Keyed(secret) * 7919 + counter * 104729) % 1000000, 6)

\* TOTP(secret).verify(otp) at minute t: strings_equal(str(otp), str(self.at(now)))
totp_verify(secret, otp, t) == otp = generate_otp(secret, Timecode(t))

\* a verify_totp that also takes the code of the time step before
verify_totp_window(self, token, t) ==
    IF ~Truthy(self.totp_secret) \/ ~self.totp_enabled THEN FALSE
    ELSE \/ totp_verify(self.totp_secret.s, token.s, t)
         \/ token.s = generate_otp(self.totp_secret.s, Timecode(t) - 1)

\* self.verify_totp(token) at minute t
verify_totp(self, token, t) ==
    IF ~Truthy(self.totp_secret) \/ ~self.totp_enabled THEN FALSE
    ELSE totp_verify(self.totp_secret.s, token.s, t)

\* self.generate_totp_secret() with the secret drawn
generate_totp_secret(self, secret) == [self EXCEPT !.totp_secret = PyStr(secret)]

\* Response(data, status): the status, whether the data hold 'token' and
\* 'refresh', whether login() opened a session, data['require_2fa'], and
\* the text of 'error' or 'message'
Response(status, token, session, require_2fa, text) ==
    [status |-> status, token |-> token, session |-> session,
     require_2fa |-> require_2fa, text |-> text]

\* a response without tokens
Answer(status, text) == Response(status, FALSE, FALSE, FALSE, text)

\* what a view leaves: the row and the response
Served(row, response) == [user |-> row, response |-> response]

\* the email of the user of the model, and one no user has
Email == <<97, 64, 120, 46, 121>>

OtherEmail == <<110, 64, 120, 46, 121>>

\* authenticate(request, username=email, password=password): the user, or
\* None after user_login_failed was sent; log_failed_login, when connected,
\* loads the user of that email and counts the attempt
authenticate(row, connected, email, password, t) ==
    LET known == row.state = "saved" /\ email = Email
    IN  IF known /\ check_password(row, password)
        THEN [ok |-> TRUE, user |-> row]
        ELSE [ok |-> FALSE,
              user |-> IF connected /\ known
                       THEN increment_failed_login(row, t) ELSE row]

\* verify_2fa_setup(request) of the logged-in user
verify_2fa_setup(row, totp_code, t) ==
    IF ~Truthy(totp_code) THEN Served(row, Answer(400, "TOTP code required"))
    ELSE IF ~Truthy(row.totp_secret)
    THEN Served(row, Answer(400, "2FA setup not initiated"))
    ELSE IF verify_totp(row, totp_code, t)
    THEN Served([row EXCEPT !.totp_enabled = TRUE],
                Answer(200, "2FA enabled successfully"))
    ELSE Served(row, Answer(400, "Invalid TOTP code"))

\* enable_2fa(request) of the logged-in user, with the secret and the
\* backup codes drawn
enable_2fa(row, secret, draw) ==
    Served(generate_backup_codes(generate_totp_secret(row, secret), draw),
           Answer(200, "totp_secret"))

\* disable_2fa(request) of the logged-in user
disable_2fa(row, password) ==
    IF ~Truthy(password) THEN Served(row, Answer(400, "Password required"))
    ELSE IF ~check_password(row, password.s)
    THEN Served(row, Answer(401, "Invalid password"))
    ELSE Served([row EXCEPT !.totp_enabled = FALSE, !.totp_secret = PyNone,
                            !.backup_codes = <<>>],
                Answer(200, "2FA disabled successfully"))

\* the body of login_view once the serializer has accepted the request
\* (lines 59-125): the user is loaded, then authenticated again
LoginAccepted(row, connected, email, password, totp_code, t) ==
    IF ~(row.state = "saved" /\ email = Email)
    THEN Served(row, Answer(401, "Invalid credentials"))
    ELSE IF is_account_locked(row, t)
    THEN Served(row, Answer(423, "Account is temporarily locked due to failed login attempts"))
    ELSE IF ~authenticate(row, connected, email, password, t).ok
    THEN Served(increment_failed_login(row, t), Answer(401, "Invalid credentials"))
    ELSE IF row.totp_enabled /\ ~Truthy(totp_code)
    THEN Served(row, Response(202, FALSE, FALSE, TRUE, "2FA code required"))
    ELSE IF row.totp_enabled /\ ~verify_totp(row, totp_code, t)
    THEN Served(increment_failed_login(row, t), Answer(401, "Invalid 2FA code"))
    ELSE Served(IF connected THEN reset_failed_login(row) ELSE row,
                Response(200, TRUE, TRUE, FALSE, "Login successful"))

\* login_view(request): LoginSerializer.validate authenticates and refuses
\* the request when that fails (line 127 answers with serializer.errors);
\* log_user_login, when connected, resets the counter after login()
login_view(row, connected, email, password, totp_code, t) ==
    IF authenticate(row, connected, email, password, t).ok
    THEN LoginAccepted(row, connected, email, password, totp_code, t)
    ELSE Served(authenticate(row, connected, email, password, t).user,
                Answer(400, "Invalid credentials"))

\* 'invalid'
T_invalid == <<105, 110, 118, 97, 108, 105, 100>>

\* the codes a request carries at minute t: none, 'invalid', and the codes
\* of the secrets of the model for this time step and for the one before
CodesAt(t) ==
    {PyStr(<<>>), PyStr(T_invalid)}
       \cup {PyStr(generate_otp(s, Timecode(t) - d)) : s \in TotpSecrets, d \in {0, 1}}

\* a view has answered: the call keeps the request, the row it found and the
\* time
Viewed(view, request, served) ==
    /\ user' = served.user
    /\ call' = Outcome(view, "none", 0,
                       [request |-> request, before |-> user, at |-> now],
                       Ok(served.response))

\* the set-up of the tests for a user with 2FA: generate_totp_secret(),
\* totp_enabled = True, save()
SetTotpEnabled ==
    /\ Idle
    /\ user.state = "saved"
    /\ \E secret \in TotpSecrets :
          Viewed("set_totp_enabled", [totp_secret |-> secret],
                 Served([generate_totp_secret(user, secret)
                            EXCEPT !.totp_enabled = TRUE],
                        Answer(0, "")))
    /\ UNCHANGED <<codec, store, keys, derived, now, webVars>>

Enable2fa ==
    /\ Idle
    /\ user.state = "saved"
    /\ \E secret \in TotpSecrets, draw \in BackupDraws :
          Viewed("enable_2fa", [totp_secret |-> secret],
                 enable_2fa(user, secret, draw))
    /\ UNCHANGED <<codec, store, keys, derived, now, webVars>>

Verify2faSetup ==
    /\ Idle
    /\ user.state = "saved"
    /\ \E totp_code \in CodesAt(now) \cup {PyNone} :
          Viewed("verify_2fa_setup", [totp_code |-> totp_code],
                 verify_2fa_setup(user, totp_code, now))
    /\ UNCHANGED <<codec, store, keys, derived, now, webVars>>

Disable2fa ==
    /\ Idle
    /\ user.state = "saved"
    /\ \E password \in {PyNone, PyStr(P_a), PyStr(P_b)} :
          Viewed("disable_2fa", [password |-> password],
                 disable_2fa(user, password))
    /\ UNCHANGED <<codec, store, keys, derived, now, webVars>>

\* a login request, while the counter is below the bound of the model
Login ==
    /\ Idle
    /\ user.failed_login_attempts < MaxAttempts
    /\ \E email \in {Email, OtherEmail}, password \in {P_a, P_b},
          totp_code \in CodesAt(now) :
          Viewed("login_view",
                 [email |-> email, password |-> password,
                  totp_code |-> totp_code],
                 login_view(user, handlers, email, password, totp_code, now))
    /\ UNCHANGED <<codec, store, keys, derived, now, webVars>>

\* a quarter of an hour passes between two requests
Wait ==
    /\ Idle
    /\ now + 15 <= MaxTime
    /\ now' = now + 15
    /\ UNCHANGED <<codec, store, call, keys, derived, user, webVars>>

NextLogin ==
    \/ CreateUser
    \/ SetTotpEnabled
    \/ Enable2fa
    \/ Verify2faSetup
    \/ Disable2fa
    \/ Login
    \/ Wait
    \/ Return

SpecLogin == Init /\ [][NextLogin]_vars

\* the view of the last call
Asked(view) == call.op = view

\* the code of the request is the one-time password of the stored secret
\* for the time step of the request
CodeVerifies ==
    /\ Truthy(call.arg.before.totp_secret)
    /\ call.arg.request.totp_code
          = PyStr(generate_otp(call.arg.before.totp_secret.s, Timecode(call.arg.at)))

\* the login request names the user and carries the password of the user
RightCredentials ==
    /\ call.arg.before.state = "saved"
    /\ call.arg.request.email = Email
    /\ check_password(call.arg.before, call.arg.request.password)

\* the account was locked when the request came
WasLocked == is_account_locked(call.arg.before, call.arg.at)

\* C21: for a user with a stored TOTP secret whose 2FA is not yet enabled,
\* verify_2fa_setup with the valid code of that secret answers 200 and sets
\* totp_enabled; enable_2fa and a verification that fails leave
\* totp_enabled false
C21_SetupVerifies ==
    /\ (Asked("verify_2fa_setup") /\ ~call.arg.before.totp_enabled /\ CodeVerifies)
          => /\ call.val.status = 200
             /\ user.totp_enabled
    /\ (Asked("enable_2fa") /\ ~call.arg.before.totp_enabled)
          => ~user.totp_enabled
    /\ (Asked("verify_2fa_setup") /\ ~call.arg.before.totp_enabled
           /\ call.val.status # 200)
          => ~user.totp_enabled

\* a login of a user with 2FA has given tokens or a session only with
\* status 200, and only to the right credentials and a code that verifies
TokensOnlyWithCode ==
    (Asked("login_view") /\ call.arg.before.totp_enabled)
        => /\ (call.val.token \/ call.val.session) => call.val.status = 200
           /\ call.val.status = 200
                 => /\ call.val.token /\ call.val.session
                    /\ RightCredentials
                    /\ CodeVerifies

\* the right password without a code is answered 202 with require_2fa and
\* no token
NoCodeAsksForOne ==
    /\ call.val.status = 202
    /\ call.val.require_2fa
    /\ ~call.val.token /\ ~call.val.session
    /\ user = call.arg.before

\* the right password with a wrong code is answered 401 without a token,
\* and the failed attempt is counted
WrongCodeCounts ==
    /\ call.val.status = 401
    /\ ~call.val.token /\ ~call.val.session
    /\ user.failed_login_attempts = call.arg.before.failed_login_attempts + 1

\* C22 (as amended): for a user with totp_enabled, login_view issues tokens
\* and opens a session only when the request carries a TOTP code that
\* verifies; for an account that is not locked, the right password without
\* a code is answered 202 with require_2fa and no token, and the right
\* password with a wrong code is answered 401 with no token and counts a
\* failed attempt; a locked account is answered 423 and gets no token
C22_TokensNeedCode ==
    /\ TokensOnlyWithCode
    /\ (Asked("login_view") /\ call.arg.before.totp_enabled /\ RightCredentials)
          => /\ (~WasLocked /\ ~Truthy(call.arg.request.totp_code))
                   => NoCodeAsksForOne
             /\ (~WasLocked /\ Truthy(call.arg.request.totp_code) /\ ~CodeVerifies)
                   => WrongCodeCounts
             /\ WasLocked
                   => /\ call.val.status = 423
                      /\ ~call.val.token /\ ~call.val.session

\* a user with 2FA has logged in with the code of the time step
C22_Witness ==
    /\ Asked("login_view")
    /\ call.arg.before.totp_enabled
    /\ CodeVerifies
    /\ call.val.status = 200
    /\ call.val.token

\* C22 as stated: whatever the state of the account, the right password
\* without a code is answered 202 and the right password with a wrong code
\* is answered 401 and counted
C22_AnswersWhateverTheLock ==
    /\ TokensOnlyWithCode
    /\ (Asked("login_view") /\ call.arg.before.totp_enabled /\ RightCredentials)
          => /\ ~Truthy(call.arg.request.totp_code) => NoCodeAsksForOne
             /\ (Truthy(call.arg.request.totp_code) /\ ~CodeVerifies)
                   => WrongCodeCounts

\* C23: login_view answers 401 and issues no token when the email is
\* unknown or the password is wrong and the account is not locked
C23_Unauthorized ==
    (Asked("login_view") /\ ~RightCredentials /\ ~WasLocked)
        => /\ call.val.status = 401
           /\ ~call.val.token /\ ~call.val.session

(***************************************************************************)
(* Failed logins counted by requests that run at the same time: each       *)
(* request loads its own User object (views.py line 64, signals.py line    *)
(* 68) and increment_failed_login saves that object                        *)
(***************************************************************************)
\* user = User.objects.get(email=email) in request r
LoadUser(r) ==
    /\ Idle
    /\ user.state = "saved"
    /\ loaded[r].state = "none"
    /\ loaded' = [loaded EXCEPT ![r] = [state |-> "loaded", user |-> user]]
    /\ UNCHANGED <<codec, store, call, keys, derived, authVars, handlers, accounts, entries>>

\* user.increment_failed_login() in request r: the object loaded is counted
\* up and saved, and save() writes every field of it to the row
SaveFailedLogin(r) ==
    /\ Idle
    /\ loaded[r].state = "loaded"
    /\ user' = increment_failed_login(loaded[r].user, now)
    /\ loaded' = [loaded EXCEPT ![r] = [state |-> "done", user |-> user']]
    /\ UNCHANGED <<codec, store, call, keys, derived, now, handlers, accounts, entries>>

NextRace ==
    \/ CreateUser
    \/ \E r \in Requests : LoadUser(r)
    \/ \E r \in Requests : SaveFailedLogin(r)
    \/ Return

SpecRace == Init /\ [][NextRace]_vars

\* the requests that have counted their failed attempt
Counted == {r \in Requests : loaded[r].state = "done"}

\* C28: the stored failed_login_attempts has grown by one for every request
\* that has counted a failed attempt, in whatever order the requests loaded
\* and saved the user; after five failed attempts the account is locked
C28_NoLostUpdate ==
    /\ user.failed_login_attempts = Cardinality(Counted)
    /\ Cardinality(Counted) >= 5 => is_account_locked(user, now)

(***************************************************************************)
(* class PasswordEntry (src/apps/passwords/models.py) and the key of its   *)
(* user (src/apps/authentication/serializers.py)                           *)
(***************************************************************************)
K_category == <<99, 97, 116, 101, 103, 111, 114, 121>>

K_tags == <<116, 97, 103, 115>>

K_is_favorite == <<105, 115, 95, 102, 97, 118, 111, 114, 105, 116, 101>>

\* data.get(k, default)
Get(data, k, default) == IF HasKey(data, k) THEN DictGet(data, k) ELSE default

\* base64.urlsafe_b64encode(b): '+' and '/' of the standard alphabet become
\* '-' and '_'
urlsafe_b64encode(b) ==
    [i \in 1..Len(b64encode(b)) |->
        IF b64encode(b)[i] = 43 THEN 45
        ELSE IF b64encode(b)[i] = 47 THEN 95 ELSE b64encode(b)[i]]

\* secrets.token_urlsafe(nbytes) with the bytes drawn: the encoding without
\* its padding
token_urlsafe(random_bytes) ==
    SelectSeq(urlsafe_b64encode(random_bytes), LAMBDA c : c # 61)

\* the bytes os.urandom(48) returns inside token_urlsafe(48) in the model:
\* 48 zero bytes, whose token is 64 times 'A', and 48 other bytes
UrlsafeDraws == {Fill(48, 0), [i \in 1..48 |-> (i * 37 + 1) % 256]}

\* 'test_key_32_bytes_long_123456789'
TestKey ==
    <<116, 101, 115, 116, 95, 107, 101, 121, 95, 51, 50, 95, 98, 121, 116, 101,
      115, 95, 108, 111, 110, 103, 95, 49, 50, 51, 52, 53, 54, 55, 56, 57>>

\* UserSerializer.create: the encryption_key of a new user
register(random_bytes) ==
    [state |-> "saved", encryption_key |-> token_urlsafe(random_bytes)]

\* self.get_encryption_key()
get_encryption_key(account) == BytesFromHex(account.encryption_key)

\* the arguments encrypt_data passes to encrypt_password_entry
EntryFields(data) ==
    [title |-> Get(data, K_title, PyStr(<<>>)),
     username |-> Get(data, K_username, PyStr(<<>>)),
     password |-> Get(data, K_password, PyStr(<<>>)),
     url |-> Get(data, K_url, PyStr(<<>>)),
     notes |-> Get(data, K_notes, PyStr(<<>>)),
     username2 |-> Get(data, K_username2, PyNone),
     username3 |-> Get(data, K_username3, PyNone),
     otp_url |-> Get(data, K_otp_url, PyNone),
     custom_fields |-> Get(data, K_custom_fields, PyNone)]

\* an encrypt_data that keeps the created_at of the data it is given
encrypt_data_stamped(account, data, token_bytes, nonce) ==
    Except(Then(get_encryption_key(account),
                LAMBDA key :
                   WithCodec(PasswordEncryption(key),
                             LAMBDA k :
                                CHOOSE out \in
                                   {encrypt_password_entry(k, EntryFields(data), t, nonce) :
                                      t \in {IF HasKey(data, K_created_at)
                                             THEN BytesFromHex(DictGet(data, K_created_at).s).val
                                             ELSE token_bytes}} : TRUE)),
           "EncryptionError", "Failed to encrypt password entry: ")

\* self.encrypt_data(data) with the token bytes and the nonce drawn
encrypt_data(account, data, token_bytes, nonce) ==
    Except(Then(get_encryption_key(account),
                LAMBDA key :
                   WithCodec(PasswordEncryption(key),
                             LAMBDA k : encrypt_password_entry(
                                           k, EntryFields(data), token_bytes, nonce))),
           "EncryptionError", "Failed to encrypt password entry: ")

\* self.decrypt_data()
decrypt_data(account, self) ==
    Except(Then(get_encryption_key(account),
                LAMBDA key :
                   WithCodec(PasswordEncryption(key),
                             LAMBDA k : decrypt_password_entry(k, self.encrypted_data))),
           "DecryptionError", "Failed to decrypt password entry: ")

\* self.get_password()
get_password(account, self) ==
    Then(decrypt_data(account, self),
         LAMBDA data : Ok(Get(data, K_password, PyStr(<<>>))))

\* self.get_username()
get_username(account, self) ==
    Then(decrypt_data(account, self),
         LAMBDA data : Ok(Get(data, K_username, PyStr(<<>>))))

\* a character str.strip() removes
IsSpace(c) == c \in {9, 10, 11, 12, 13, 28, 29, 30, 31, 32, 133, 160}

\* '://'
SchemeMark == <<58, 47, 47>>

\* self.update_hints(data)
update_hints(self, data) ==
    LET username == Get(data, K_username, PyStr(<<>>)).s
        url == Get(data, K_url, PyStr(<<>>))
        notes == Get(data, K_notes, PyStr(<<>>))
    IN  [self EXCEPT
            !.username_hint =
                IF Len(username) >= 3
                THEN SubSeq(username, 1, 3) \o Fill(Len(username) - 3, 42)
                ELSE username \o Fill(3 - Len(username), 42),
            !.url_hint =
                IF Truthy(url) /\ Len(Split(url.s, SchemeMark)) > 1
                THEN Split(Split(url.s, SchemeMark)[2], <<47>>)[1]
                ELSE <<>>,
            !.has_notes =
                Truthy(notes) /\ \E i \in 1..Len(notes.s) : ~IsSpace(notes.s[i])]

\* a row of password_entries as PasswordEntry(user=...) and save() leave it
NewEntry(id, owner) ==
    [state |-> "saved", id |-> id, user |-> owner, title |-> <<>>,
     encrypted_data |-> <<>>,
     category |-> <<>>, tags |-> <<>>, is_favorite |-> FALSE,
     username_hint |-> <<>>, url_hint |-> <<>>, has_notes |-> FALSE,
     last_accessed |-> NoTime]

\* the fields update_from_data takes from data beside the encrypted ones
Plain(self, data) ==
    [self EXCEPT !.title = Get(data, K_title, PyStr(<<>>)).s,
                 !.category = Get(data, K_category, PyStr(<<>>)).s,
                 !.tags = Get(data, K_tags, PyList(<<>>)).d,
                 !.is_favorite = Get(data, K_is_favorite, PyBool(FALSE)).t = "true"]

\* self.update_from_data(data), the save included: the entry afterwards, or
\* the exception of encrypt_data, which leaves the row as it was
update_from_data(account, self, data, token_bytes, nonce) ==
    Then(encrypt_data(account, data, token_bytes, nonce),
         LAMBDA encrypted :
            Ok(update_hints([Plain(self, data) EXCEPT !.encrypted_data = encrypted],
                            data)))

\* the data dictionary of create_entry for the arguments given (url, notes
\* and the further user names are None when they are not given)
EntryData(given) ==
    PyDict(<< <<K_title, PyStr(given.title)>>,
              <<K_username, PyStr(given.username)>>,
              <<K_password, PyStr(given.password)>>,
              <<K_url, given.url>>,
              <<K_notes, given.notes>>,
              <<K_category, PyStr(given.category)>>,
              <<K_tags, PyList(given.tags)>>,
              <<K_is_favorite, PyBool(given.is_favorite)>>,
              <<K_username2, PyNone>>,
              <<K_username3, PyNone>>,
              <<K_otp_url, PyNone>>,
              <<K_custom_fields, PyDict(<<>>)>> >>)

\* PasswordEntry.create_entry(user, title, username, password, ...): the
\* saved entry with the next id, or the exception of encrypt_data
create_entry(account, id, owner, given, token_bytes, nonce) ==
    Then(encrypt_data(account, EntryData(given), token_bytes, nonce),
         LAMBDA encrypted :
            Ok(update_hints(
                  [NewEntry(id, owner) EXCEPT !.title = given.title,
                                              !.category = given.category,
                                              !.tags = given.tags,
                                              !.is_favorite = given.is_favorite,
                                              !.encrypted_data = encrypted],
                  EntryData(given))))

(***************************************************************************)
(* Accounts and their entries: registration, the key the tests set, and    *)
(* the methods of PasswordEntry                                            *)
(***************************************************************************)
MaxEntries == 2

\* 'Abcdef1!' and 'Zyxwvu9?'
Pw_first == <<65, 98, 99, 100, 101, 102, 49, 33>>

Pw_second == <<90, 121, 120, 119, 118, 117, 57, 63>>

\* 'alice' and 'bo'
U_alice == <<97, 108, 105, 99, 101>>

U_bo == <<98, 111>>

\* 'https://x.org/p'
Url_x == <<104, 116, 116, 112, 115, 58, 47, 47, 120, 46, 111, 114, 103, 47, 112>>

\* the arguments of create_entry in the model
Givens ==
    {[title |-> <<84>>, username |-> U_alice, password |-> Pw_first,
      url |-> PyNone, notes |-> PyNone, category |-> <<>>, tags |-> <<>>,
      is_favorite |-> FALSE],
     [title |-> <<85>>, username |-> U_bo, password |-> Pw_second,
      url |-> PyStr(Url_x), notes |-> PyStr(<<32, 110>>), category |-> <<119>>,
      tags |-> <<PyStr(<<116>>)>>, is_favorite |-> TRUE]}

\* the new_data of update_from_data in the model: title, username, password
\* and category, as the tests pass them
NewData ==
    {PyDict(<< <<K_title, PyStr(<<86>>)>>,
               <<K_username, PyStr(U_bo)>>,
               <<K_password, PyStr(Pw_second)>>,
               <<K_category, PyStr(<<119>>)>> >>)}

\* the values os.urandom(16) returns inside token_hex(16) for the entries
EntryTokens == TokenBytes \cup {[i \in 1..16 |-> (i * 11 + 200) % 256]}

\* UserSerializer.create for the user u with a draw of the set draws
RegisterWith(u, draws) ==
    /\ Idle
    /\ accounts[u].state = "none"
    /\ \E random_bytes \in draws :
          accounts' = [accounts EXCEPT ![u] = register(random_bytes)]
    /\ UNCHANGED <<codec, store, call, keys, derived, authVars, handlers, loaded, entries>>

\* UserSerializer.create for the user u
Register(u) == RegisterWith(u, UrlsafeDraws)

\* the setUp of the tests: user.encryption_key = 'test_key_32_bytes_long_123456789'
SetTestKey(u) ==
    /\ Idle
    /\ accounts[u].encryption_key # TestKey
    /\ accounts' = [accounts EXCEPT ![u] = [state |-> "saved", encryption_key |-> TestKey]]
    /\ UNCHANGED <<codec, store, call, keys, derived, authVars, handlers, loaded, entries>>

\* the plaintext JSON of a row that its owner's key opens
Plaintext(account, row) ==
    decrypt(get_encryption_key(account).val, row.encrypted_data).val

\* what the row a method returned decrypts to under its owner's key: the
\* plaintext JSON and the dictionary (nothing when the method raised)
ReadRow(account, r) ==
    IF r.ok
    THEN [text |-> Plaintext(account, r.val), data |-> decrypt_data(account, r.val).val]
    ELSE [text |-> <<>>, data |-> PyNone]

\* a method of the model has returned or raised: a new row is appended, a
\* changed row i replaces the old one, an exception leaves the table alone
Stored(op, src, arg, i, r) ==
    /\ entries' = IF ~r.ok THEN entries
                  ELSE IF i > Len(entries) THEN Append(entries, r.val)
                  ELSE [entries EXCEPT ![i] = r.val]
    /\ call' = Outcome(op, "model", src, arg, r)
    /\ UNCHANGED <<codec, store, keys, derived, authVars, handlers, loaded, accounts>>

\* PasswordEntry.create_entry(user=u, ...) with arguments of the set givens
\* and a draw of the set tokens
CreateWith(u, givens, tokens) ==
    /\ Idle
    /\ accounts[u].state = "saved"
    /\ Len(entries) < MaxEntries
    /\ \E given \in givens, token_bytes \in tokens :
          Stored("create_entry", u,
                 [given |-> given, token_bytes |-> token_bytes,
                  read |-> ReadRow(accounts[u],
                                   create_entry(accounts[u], Len(entries) + 1, u, given,
                                                token_bytes, N1))],
                 Len(entries) + 1,
                 create_entry(accounts[u], Len(entries) + 1, u, given, token_bytes, N1))

\* PasswordEntry.create_entry(user=u, ...)
CreateEntry(u) == CreateWith(u, Givens, EntryTokens)

\* the rows of the table
Rows == {i \in 1..Len(entries) : entries[i].state = "saved"}

\* entry.get_password()
GetPassword(i) ==
    /\ Idle
    /\ i \in Rows
    /\ call' = Outcome("get_password", "model", i, <<>>,
                       get_password(accounts[entries[i].user], entries[i]))
    /\ UNCHANGED <<codec, store, keys, others>>

\* entry.get_username()
GetUsername(i) ==
    /\ Idle
    /\ i \in Rows
    /\ call' = Outcome("get_username", "model", i, <<>>,
                       get_username(accounts[entries[i].user], entries[i]))
    /\ UNCHANGED <<codec, store, keys, others>>

\* entry.update_from_data(new_data)
UpdateFromData(i) ==
    /\ Idle
    /\ i \in Rows
    /\ \E data \in NewData, token_bytes \in EntryTokens :
          Stored("update_from_data", entries[i].user,
                 [data |-> data, token_bytes |-> token_bytes, before |-> entries[i],
                  was |-> ReadRow(accounts[entries[i].user], Ok(entries[i])),
                  read |-> ReadRow(accounts[entries[i].user],
                                   update_from_data(accounts[entries[i].user], entries[i],
                                                    data, token_bytes, N2))],
                 i,
                 update_from_data(accounts[entries[i].user], entries[i], data,
                                  token_bytes, N2))

NextEntries ==
    \/ \E u \in UserIds : Register(u)
    \/ \E u \in UserIds : SetTestKey(u)
    \/ \E u \in UserIds : CreateEntry(u)
    \/ \E i \in 1..MaxEntries : GetPassword(i)
    \/ \E i \in 1..MaxEntries : GetUsername(i)
    \/ \E i \in 1..MaxEntries : UpdateFromData(i)
    \/ Return

SpecEntries == Init /\ [][NextEntries]_vars

\* the key of the user whose call is at hand
Requester == accounts[call.src]

\* C25: for a user whose encryption_key is the one set at registration, or
\* the key the tests set, create_entry succeeds and get_password and
\* get_username then return the password and the username given; after
\* update_from_data with new values they return the new values
C25_KeysWork ==
    /\ call.op = "create_entry" =>
          /\ call.ok
          /\ get_password(Requester, call.val) = Ok(PyStr(call.arg.given.password))
          /\ get_username(Requester, call.val) = Ok(PyStr(call.arg.given.username))
    /\ call.op = "update_from_data" =>
          /\ call.ok
          /\ get_password(Requester, call.val) = Ok(DictGet(call.arg.data, K_password))
          /\ get_username(Requester, call.val) = Ok(DictGet(call.arg.data, K_username))

(***************************************************************************)
(* PasswordEntrySerializer.update (src/apps/passwords/serializers.py)      *)
(***************************************************************************)
\* the fields update copies from validated_data, in the order of the code
UpdateFields ==
    <<K_username, K_url, K_notes, K_category, K_tags, K_is_favorite, K_password, K_title>>

\* current_data[field] = validated_data[field] for the first n fields that
\* validated_data holds
RECURSIVE Merged(_, _, _)
Merged(current_data, validated_data, n) ==
    IF n = 0 THEN current_data
    ELSE LET before == Merged(current_data, validated_data, n - 1)
             field == UpdateFields[n]
         IN  IF HasKey(validated_data, field)
             THEN PyDict(DictSet(before.d, field, DictGet(validated_data, field)))
             ELSE before

\* serializer.update(instance, validated_data): the instance afterwards, or
\* the exception of decrypt_data or of update_from_data
update(account, instance, validated_data, token_bytes, nonce) ==
    Then(decrypt_data(account, instance),
         LAMBDA current_data :
            update_from_data(account, instance,
                             Merged(current_data, validated_data, Len(UpdateFields)),
                             token_bytes, nonce))

\* the validated_data of a partial update in the model: nothing, and a new
\* title with notes
Validated ==
    {PyDict(<<>>),
     PyDict(<< <<K_title, PyStr(<<86>>)>>, <<K_notes, PyStr(<<110>>)>> >>)}

\* PasswordEntrySerializer(entry, data=..., partial=True).save() with data
\* that is valid
SerializerUpdate(i) ==
    /\ Idle
    /\ i \in Rows
    /\ \E validated_data \in Validated, token_bytes \in EntryTokens :
          Stored("update", entries[i].user,
                 [data |-> validated_data, token_bytes |-> token_bytes,
                  before |-> entries[i],
                  was |-> ReadRow(accounts[entries[i].user], Ok(entries[i])),
                  read |-> ReadRow(accounts[entries[i].user],
                                   update(accounts[entries[i].user], entries[i],
                                          validated_data, token_bytes, N2))],
                 i,
                 update(accounts[entries[i].user], entries[i], validated_data,
                        token_bytes, N2))

\* the entries of one user, made and encrypted again
NextStamps ==
    \/ Register(1)
    \/ CreateEntry(1)
    \/ \E i \in 1..MaxEntries : SerializerUpdate(i)
    \/ Return

SpecStamps == Init /\ [][NextStamps]_vars

\* the created_at of a decrypted dictionary
Stamp(data) == DictGet(data, K_created_at)

\* the items of a decrypted dictionary beside created_at
Fields(data) == SelectSeq(data.d, LAMBDA item : item[1] # K_created_at)

\* an encryption of an entry has returned
Encrypted == call.op \in {"create_entry", "update_from_data", "update"} /\ call.ok

\* the token of the draw of the call at hand
Token == token_hex(call.arg.token_bytes)

Found_by_pk(table, u, pk) ==
    pk \in 1..Len(table) /\ table[pk].state = "saved"

\* get_object_or_404(PasswordEntry, pk=pk, user=user) finds a row
Found(table, u, pk) ==
    pk \in 1..Len(table) /\ table[pk].state = "saved" /\ table[pk].user = u

\* entry.delete(): the row is gone and its id is not given again
Deleted(row) == [NewEntry(row.id, row.user) EXCEPT !.state = "deleted"]

\* what a view leaves: the table, the status of the response, the ids of
\* the entries the response shows and the decrypted password it carries
Replied(table, status, shown, secret) ==
    [entries |-> table,
     response |-> [status |-> status, shown |-> shown, secret |-> secret]]

\* '***'
Stars == <<42, 42, 42>>

\* PasswordEntryDetailSerializer(entry).data: the decrypted fields and
\* instance.access(), or '***' when decryption fails
Represented(table, pk, r, t) ==
    IF r.ok
    THEN Replied([table EXCEPT ![pk].last_accessed = Time(t)], 200, <<pk>>, r.val)
    ELSE Replied(table, 200, <<pk>>, PyStr(Stars))

\* serializer.is_valid() of PasswordEntrySerializer(entry, data, partial=True)
\* for data without url: a password has 8 characters or more and scores 3
\* or more
IsValid(data) ==
    HasKey(data, K_password) =>
       /\ Len(DictGet(data, K_password).s) >= 8
       /\ validate_password_strength(DictGet(data, K_password).s).score >= 3

\* serializer.save() and the response; an exception of update is not caught
Saved(table, pk, r) ==
    IF r.ok
    THEN Replied([table EXCEPT ![pk] = r.val], 200, <<pk>>, PyNone)
    ELSE Replied(table, 500, <<>>, PyNone)

\* password_entry_detail(request, pk) for the user u at the time t
password_entry_detail(table, accs, u, pk, request, t) ==
    IF ~Found(table, u, pk) THEN Replied(table, 404, <<>>, PyNone)
    ELSE IF request.method = "GET"
         THEN Represented(table, pk, get_password(accs[u], table[pk]), t)
    ELSE IF request.method = "PUT"
         THEN IF IsValid(request.data)
              THEN Saved(table, pk,
                         update(accs[u], table[pk], request.data,
                                request.token_bytes, N2))
              ELSE Replied(table, 400, <<>>, PyNone)
    ELSE Replied([table EXCEPT ![pk] = Deleted(table[pk])], 204, <<>>, PyNone)

\* the values of a list
Values(list) == {list[k] : k \in 1..Len(list)}

\* user.password_entries.filter(id__in=value): the ids of the rows found
OwnIds(table, u, value) ==
    {i \in 1..Len(table) :
        table[i].state = "saved" /\ table[i].user = u /\ i \in Values(value)}

\* validate_entry_ids(value) raises no ValidationError
validate_entry_ids(table, u, value) ==
    Cardinality(OwnIds(table, u, value)) = Len(value)

\* BulkPasswordOperationSerializer.validate(attrs) raises no ValidationError
validate(attrs) ==
    /\ attrs.operation = "move" => "category" \in DOMAIN attrs
    /\ attrs.operation = "tag" => "tags" \in DOMAIN attrs
    /\ attrs.operation = "share" =>
          "share_with" \in DOMAIN attrs /\ "share_type" \in DOMAIN attrs

\* list(set(current_tags + tags)) for a set that iterates in the given order
Listed(order, current_tags, tags) ==
    SelectSeq(order, LAMBDA x : x \in Values(current_tags) \cup Values(tags))

\* bulk_operations(request) for the user u; order is the order in which the
\* sets of tags iterate
bulk_operations(table, u, attrs, order) ==
    IF ~(validate_entry_ids(table, u, attrs.entry_ids) /\ validate(attrs))
    THEN Replied(table, 400, <<>>, PyNone)
    ELSE IF attrs.operation = "delete"
         THEN Replied([i \in 1..Len(table) |->
                          IF i \in OwnIds(table, u, attrs.entry_ids)
                          THEN Deleted(table[i]) ELSE table[i]],
                      200, <<>>, PyNone)
    ELSE IF attrs.operation = "move"
         THEN Replied([i \in 1..Len(table) |->
                          IF i \in OwnIds(table, u, attrs.entry_ids)
                          THEN [table[i] EXCEPT !.category = attrs.category]
                          ELSE table[i]],
                      200, <<>>, PyNone)
    ELSE IF attrs.operation = "tag"
         THEN Replied([i \in 1..Len(table) |->
                          IF i \in OwnIds(table, u, attrs.entry_ids)
                          THEN [table[i] EXCEPT
                                   !.tags = Listed(order, table[i].tags, attrs.tags)]
                          ELSE table[i]],
                      200, <<>>, PyNone)
    ELSE Replied(table, 501, <<>>, PyNone)

\* 'abc' and the title 'V'
Pw_weak == <<97, 98, 99>>

\* the requests to password_entry_detail in the model
DetailRequests ==
    {[method |-> "GET"], [method |-> "DELETE"],
     [method |-> "PUT", data |-> PyDict(<< <<K_title, PyStr(<<86>>)>> >>),
      token_bytes |-> CHOOSE b \in EntryTokens : b \notin TokenBytes],
     [method |-> "PUT", data |-> PyDict(<< <<K_password, PyStr(Pw_weak)>> >>),
      token_bytes |-> CHOOSE b \in EntryTokens : b \notin TokenBytes]}

\* the lists of ids a bulk request names in the model
IdLists == {<<1>>, <<2>>, <<1, 2>>, <<1, 1>>}

\* the tag 't'
Tag_t == PyStr(<<116>>)

\* the validated data of the bulk requests in the model
BulkRequests ==
    UNION {{[entry_ids |-> ids, operation |-> "delete"],
            [entry_ids |-> ids, operation |-> "move", category |-> <<119>>],
            [entry_ids |-> ids, operation |-> "move"],
            [entry_ids |-> ids, operation |-> "tag", tags |-> <<Tag_t>>],
            [entry_ids |-> ids, operation |-> "share", share_with |-> Email,
             share_type |-> "view"]} : ids \in IdLists}

\* the orders in which a set of the tags of the model can iterate: the
\* entries of this part have no tags before, so the sets have one element
Orders == {<<Tag_t>>}

\* a view has answered the request of the user u
Answered(view, u, request, served) ==
    /\ entries' = served.entries
    /\ call' = Outcome(view, "view", u, request, Ok(served.response))
    /\ UNCHANGED <<codec, store, keys, derived, authVars, handlers, loaded, accounts>>

\* GET, PUT or DELETE of /entries/pk by the user u
Detail(u, pk) ==
    /\ Idle
    /\ accounts[u].state = "saved"
    /\ \E request \in DetailRequests :
          Answered("password_entry_detail", u, [pk |-> pk, request |-> request],
                   password_entry_detail(entries, accounts, u, pk, request, now))

\* POST of a bulk operation by the user u
Bulk(u) ==
    /\ Idle
    /\ accounts[u].state = "saved"
    /\ \E attrs \in BulkRequests, order \in Orders :
          Answered("bulk_operations", u, attrs,
                   bulk_operations(entries, u, attrs, order))

\* the draws of registration whose key get_encryption_key can read
HexDraws == {b \in UrlsafeDraws : BytesFromHex(token_urlsafe(b)).ok}

\* the one set of arguments the entries of this part are made with
FirstGiven == {g \in Givens : g.tags = <<>>}

NextOwnership ==
    \/ \E u \in UserIds : RegisterWith(u, HexDraws)
    \/ \E u \in UserIds : CreateWith(u, FirstGiven, TokenBytes)
    \/ \E u \in UserIds, pk \in 1..(MaxEntries + 1) : Detail(u, pk)
    \/ \E u \in UserIds : Bulk(u)
    \/ Return

SpecOwnership == Init /\ [][NextOwnership]_vars

\* the rows a step changes or deletes
Touched == {i \in 1..Len(entries) : entries'[i] # entries[i]}

\* a row of the table that is not the user u's
Foreign(u, i) == i \notin 1..Len(entries) \/ entries[i].state # "saved" \/ entries[i].user # u

\* a request of a view is answered in this step
ViewStep == call'.op \in {"password_entry_detail", "bulk_operations"}

\* C30: a detail or bulk request reads, changes and deletes entries of the
\* requester only; a detail request for an entry that is not the requester's
\* answers 404 and changes nothing, and a bulk request that names an id that
\* is not the requester's answers 400 and changes nothing
OwnerOnly ==
    ViewStep =>
       /\ \A i \in Touched : entries[i].user = call'.src
       /\ \A k \in 1..Len(call'.val.shown) : entries[call'.val.shown[k]].user = call'.src
       /\ (call'.op = "password_entry_detail" /\ Foreign(call'.src, call'.arg.pk)) =>
             call'.val.status = 404 /\ entries' = entries
       /\ (/\ call'.op = "bulk_operations"
           /\ \E k \in 1..Len(call'.arg.entry_ids) :
                 Foreign(call'.src, call'.arg.entry_ids[k])) =>
             call'.val.status = 400 /\ entries' = entries

C30_OwnerOnly == [][OwnerOnly]_vars

\* a bulk request that named an entry of the requester and one of another
\* user was rejected
C30_Witness ==
    /\ call.op = "bulk_operations"
    /\ call.val.status = 400
    /\ validate(call.arg)
    /\ \E j, k \in 1..Len(call.arg.entry_ids) :
          /\ ~Foreign(call.src, call.arg.entry_ids[j])
          /\ Foreign(call.src, call.arg.entry_ids[k])
          /\ call.arg.entry_ids[k] \in Rows

=============================================================================
